---------------------------- MODULE Spec2Model ----------------------------
(***************************************************************************)
(* A model of the storage engine of whatawhat: the interval entity and its *)
(* algebra (daemon/storage/entities.rs), the collapse of samples into      *)
(* intervals and the per-day record file with its in-place rewrite of the  *)
(* last line (daemon/storage/record_storage.rs, fs/operations.rs).         *)
(*                                                                         *)
(* Instants and durations are integers counted in ticks; one second is     *)
(* TicksPerSec ticks, so that sub-second instants exist in memory while    *)
(* the record file keeps whole seconds only.                               *)
(***************************************************************************)
EXTENDS Integers, Sequences, FiniteSets, TLC

VARIABLES
    c_last,         \* collapse_records: the carried interval it was called with
    c_records,      \* collapse_records: the samples consumed so far
    c_intervals,    \* collapse_records: the local Vec `intervals`
    iv,             \* the interval a function is applied to
    iv_op,          \* the last function applied, its arguments and result
    file,           \* the bytes of one day's record file
    clock,          \* the latest instant a sample was stamped with
    appends,        \* number of append calls made so far
    faults,         \* number of I/O errors and crashes so far
    committed,      \* the contents the file had whenever no append was under way
    pc,             \* per handle and reader: the step it is at
    lock,           \* per handle and reader: the advisory lock it holds
    cursor,         \* per handle and reader: the position of its open file
    usage_record,   \* per handle: the argument of append
    last_line,      \* per handle: append_with_file's last_line
    buffer,         \* per handle: append_with_file's buffer
    written,        \* per handle: how many bytes of buffer write_all has written
    result,         \* per handle: what the last append returned
    fault,          \* per handle: the step of the last append that failed
    pre_file,       \* per handle: the file as it was when the append took the lock
    rd_bytes,       \* per reader: the bytes read so far
    present,        \* whether the day's record file exists
    rd_result,      \* per reader: what get_all_inner returned
    samples,        \* the samples a sequence of appends is given, in order
    now,            \* daemon: the wall clock (Clock::time), in ticks
    cancelled,      \* daemon: whether the shutdown token is cancelled
    c_pc,           \* collector: the step DataCollectionModule::run is at
    collection_point, \* collector: the instant of its next tick
    c_record,       \* collector: the record collect_data returned
    queue,          \* the mpsc channel between collector and processor
    p_pc,           \* processor: the step ProcessingModule::run is at
    p_record,       \* processor: the record being processed
    current_handle, \* LocalSaver::current_handle
    active_file,    \* process_next: the handle move_file_handle returned
    clock_seen,     \* the instants move_file_handle read the clock at: the last two
    day_files,      \* the record directory: the bytes of the file of each date
    stats,          \* counts of enqueued, skipped and processed samples
    x_config,       \* extract_between: the ExtractConfig (start, end)
    x_current,      \* date_range: the next date it yields
    x_files,        \* buffered(4): the get_data_for futures in progress, in order
    x_result,       \* the items the stream `result` has yielded so far
    x_read,         \* per date: what get_data_for returned
    cl_arg,         \* clean_time_start: its arguments (rough_start, scale, zone)
    cl_ret,         \* clean_time_start: what it returned
    g_scale,        \* sliding_interval_grouping: the SlidingInterval
    g_zone,         \* sliding_interval_grouping: the offset of Tz from UTC
    g_input,        \* the intervals the stream `values` holds when it is handed over
    g_values,       \* the part of `values` not polled yet
    g_backlog,      \* sliding_interval_grouping: backlog
    g_start,        \* sliding_interval_grouping: collapse_start
    g_end,          \* sliding_interval_grouping: collapse_end
    g_collected,    \* sliding_interval_grouping: collected, with the end of each bucket
    g_pc,           \* sliding_interval_grouping: the step it is at
    t_command,      \* timeline: the TimelineCommand
    t_pc,           \* timeline: the step process_timeline_command is at
    t_opened,       \* timeline: the dates whose record file has been opened
    t_range,        \* timeline: the start and end parse_values returned
    a_arg,          \* analyze_processes / analyze_windows: the arguments
    a_ret           \* analyze_processes / analyze_windows: what was returned

collapseVars == <<c_last, c_records, c_intervals>>
intervalVars == <<iv, iv_op>>
handleVars == <<pc, lock, cursor, usage_record, last_line, buffer, written,
                result, fault, pre_file>>
fileVars == <<file, clock, appends, faults, committed, handleVars, rd_bytes>>
readVars == <<present, rd_result>>
daemonVars == <<now, cancelled, c_pc, collection_point, c_record, queue, p_pc,
                p_record, current_handle, active_file, clock_seen, day_files, stats>>
extractVars == <<x_config, x_current, x_files, x_result, x_read>>
cleanVars == <<cl_arg, cl_ret>>
groupVars == <<g_scale, g_zone, g_input, g_values, g_backlog, g_start, g_end,
               g_collected, g_pc>>
timelineVars == <<t_command, t_pc, t_opened, t_range>>
analyzeVars == <<a_arg, a_ret>>
cliVars == <<extractVars, cleanVars, groupVars, timelineVars, analyzeVars>>
vars == <<collapseVars, intervalVars, fileVars, readVars, samples, daemonVars, cliVars>>

(***************************************************************************)
(* Bounds of the model.                                                    *)
(***************************************************************************)
MaxMoment == 5          \* latest instant of a sample, in ticks
MaxRecords == 3         \* samples handed to one collapse_records run
MaxCarried == 2         \* largest duration of a carried interval, in seconds
MaxStart == 4           \* interval algebra: latest start of the interval operated on
MaxDuration == 3        \* interval algebra: longest duration of the interval operated on
MaxAppends == 3         \* record file: append calls in one behaviour
MaxFaults == 1          \* record file: I/O errors and crashes in one behaviour
MaxFileMoment == 4      \* record file: latest instant of a sample, in ticks
MaxLines == 3           \* reads: lines of the file read
MaxNow == 4             \* daemon: the instant the wall clock stops at, in ticks
MaxGroupItems == 2      \* grouping: intervals of the stream grouped
MaxGap == 1             \* grouping: longest gap before an interval, in half units of the scale
MaxSpan == 3            \* grouping: longest interval, in half units of the scale

(***************************************************************************)
(* Option<T>: None is the empty sequence, Some(x) the one-element one.     *)
(***************************************************************************)
None == <<>>
Some(x) == <<x>>

(***************************************************************************)
(* chrono's DateTime<Utc> and Duration count nanoseconds; the record file  *)
(* keeps whole seconds (ts_seconds, duration_ser).  The model keeps the    *)
(* distinction with the coarsest resolution that has sub-second instants.  *)
(***************************************************************************)
TicksPerSec == 2

Seconds(n) == n * TicksPerSec

(***************************************************************************)
(* The values of the (window_name, process_name, afk) fields.  Names are   *)
(* sequences of bytes, as a Rust str is.                                   *)
(***************************************************************************)
WindowNames == { <<"W">>, <<"V">> }
ProcessNames == { <<"A">>, <<"B">> }
Keys ==
    { [window_name |-> <<"W">>, process_name |-> <<"A">>, afk |-> FALSE],
      [window_name |-> <<"V">>, process_name |-> <<"A">>, afk |-> FALSE],
      [window_name |-> <<"W">>, process_name |-> <<"B">>, afk |-> FALSE],
      [window_name |-> <<"W">>, process_name |-> <<"A">>, afk |-> TRUE] }

UsageIntervalEntity(w, p, s, d, a) ==
    [window_name |-> w, process_name |-> p, start |-> s, duration |-> d, afk |-> a]

UsageRecordEntity(w, p, m, a) ==
    [window_name |-> w, process_name |-> p, moment |-> m, afk |-> a]

KeyOf(x) == [window_name |-> x.window_name, process_name |-> x.process_name, afk |-> x.afk]

end(i) == i.start + i.duration

set_end_Absolute(i, v) == [i EXCEPT !.duration = v]

set_end_FromEnd(i, v) == [i EXCEPT !.duration = v - end(i)]

set_end(i, v) == [i EXCEPT !.duration = v - i.start]

\* impl From<UsageRecordEntity> for UsageIntervalEntity
FromRecord(r) == UsageIntervalEntity(r.window_name, r.process_name, r.moment, 0, r.afk)

(***************************************************************************)
(* UsageIntervalEntity::split_by: <<before, after>>, each an Option.       *)
(***************************************************************************)
split_by_AfterKeepsDuration(i, split) ==
    IF split < i.start THEN <<None, Some(i)>>
    ELSE IF split >= end(i) THEN <<Some(i), None>>
    ELSE << Some([i EXCEPT !.duration = split - i.start]),
            Some([i EXCEPT !.start = split]) >>

split_by_BeforeKeepsDuration(i, split) ==
    IF split < i.start THEN <<None, Some(i)>>
    ELSE IF split >= end(i) THEN <<Some(i), None>>
    ELSE << Some(i),
            Some(UsageIntervalEntity(i.window_name, i.process_name,
                                     split, end(i) - split, i.afk)) >>

split_by(i, split) ==
    IF split < i.start THEN <<None, Some(i)>>
    ELSE IF split >= end(i) THEN <<Some(i), None>>
    ELSE << Some(UsageIntervalEntity(i.window_name, i.process_name,
                                     i.start, split - i.start, i.afk)),
            Some(UsageIntervalEntity(i.window_name, i.process_name,
                                     split, end(i) - split, i.afk)) >>

\* UsageIntervalEntity::clamp: split_by(from).1.and_then(|v| v.split_by(to).0)
clamp(i, from, to) ==
    LET after == split_by(i, from)[2]
    IN  IF after = None THEN None ELSE split_by(after[1], to)[1]

(***************************************************************************)
(* collapse_records.  MAX_MERGE_DURATION is Duration::seconds(2).          *)
(***************************************************************************)
MAX_MERGE_SECONDS == 2
MAX_MERGE_DURATION == Seconds(MAX_MERGE_SECONDS)

Last(s) == s[Len(s)]
Front(s) == SubSeq(s, 1, Len(s) - 1)

CollapseRecord_NoBridge(intervals, record) ==
    IF intervals # <<>>
       /\ KeyOf(Last(intervals)) = KeyOf(record)
       /\ record.moment - end(Last(intervals)) < MAX_MERGE_DURATION
    THEN Front(intervals) \o <<set_end(Last(intervals), record.moment)>>
    ELSE Append(intervals, FromRecord(record))

CollapseRecord_AbsorbsGap(intervals, record) ==
    IF intervals # <<>> /\ KeyOf(Last(intervals)) = KeyOf(record)
    THEN Front(intervals) \o <<set_end(Last(intervals), record.moment)>>
    ELSE IF intervals # <<>>
            /\ record.moment - end(Last(intervals)) < MAX_MERGE_DURATION
    THEN Append(intervals, [FromRecord(record) EXCEPT !.start = end(Last(intervals))])
    ELSE Append(intervals, FromRecord(record))

CollapseRecord_BridgesAtStart(intervals, record) ==
    IF intervals # <<>>
       /\ KeyOf(Last(intervals)) = KeyOf(record)
       /\ record.moment - end(Last(intervals)) < MAX_MERGE_DURATION
    THEN Front(intervals) \o <<set_end(Last(intervals), record.moment)>>
    ELSE IF intervals # <<>>
            /\ record.moment - end(Last(intervals)) < MAX_MERGE_DURATION
    THEN Append(intervals, [FromRecord(record) EXCEPT !.start = Last(intervals).start])
    ELSE Append(intervals, FromRecord(record))

\* The body of the loop of collapse_records: one record against the Vec.
CollapseRecord(intervals, record) ==
    IF intervals # <<>>
       /\ Last(intervals).window_name = record.window_name
       /\ Last(intervals).process_name = record.process_name
       /\ Last(intervals).afk = record.afk
       /\ record.moment - end(Last(intervals)) < MAX_MERGE_DURATION
    THEN Front(intervals) \o <<set_end(Last(intervals), record.moment)>>
    ELSE IF intervals # <<>>
            /\ record.moment - end(Last(intervals)) < MAX_MERGE_DURATION
    THEN Append(intervals, [FromRecord(record) EXCEPT !.start = end(Last(intervals))])
    ELSE Append(intervals, FromRecord(record))

RECURSIVE CollapseFrom(_, _)
CollapseFrom(intervals, usage_records) ==
    IF usage_records = <<>> THEN intervals
    ELSE CollapseFrom(CollapseRecord(intervals, Head(usage_records)), Tail(usage_records))

\* last_interval is an Option; the Vec starts with it when it is Some.
collapse_records(last_interval, usage_records) ==
    CollapseFrom(last_interval, usage_records)

(***************************************************************************)
(* The record line.  serde_json writes an interval as one JSON object,     *)
(*   {"window_name":..,"process_name":..,"start":N,"duration":N,"afk":b}   *)
(* The model keeps the bytes that decide what a torn or overwritten line   *)
(* parses to: the braces, the field contents in their order with a         *)
(* separator between them, and the numbers in decimal, so that the length  *)
(* of a line varies with its names and with the digits of its numbers.     *)
(* The bytes xC3 xA9 are the two bytes of one non-ASCII character.         *)
(***************************************************************************)
NL == "nl"
Structural == {"{", "}", "|", NL}

Min(a, b) == IF a < b THEN a ELSE b
Max(a, b) == IF a > b THEN a ELSE b

DigitByte(d) == <<"0", "1", "2", "3", "4", "5", "6", "7", "8", "9">>[d + 1]
DigitBytes == { DigitByte(d) : d \in 0 .. 9 }
DigitValue(b) == CHOOSE d \in 0 .. 9 : DigitByte(d) = b

\* itoa of a non-negative integer
RECURSIVE NatBytes(_)
NatBytes(n) ==
    IF n < 10 THEN <<DigitByte(n)>>
    ELSE NatBytes(n \div 10) \o <<DigitByte(n % 10)>>

IntBytes(n) == IF n < 0 THEN <<"-">> \o NatBytes(-n) ELSE NatBytes(n)

ts_seconds_SubSecond(instant) == instant

\* chrono::serde::ts_seconds: DateTime::timestamp(), the whole seconds (floor)
ts_seconds(instant) == instant \div TicksPerSec

\* duration_ser::serialize: Duration::num_seconds(), truncated towards zero
num_seconds(duration) ==
    IF duration >= 0 THEN duration \div TicksPerSec
    ELSE -((-duration) \div TicksPerSec)

\* serde_json::to_writer of one UsageIntervalEntity
to_writer(i) ==
    <<"{">> \o i.window_name \o <<"|">> \o i.process_name
        \o <<"|">> \o IntBytes(ts_seconds(i.start))
        \o <<"|">> \o IntBytes(num_seconds(i.duration))
        \o <<"|">> \o <<IF i.afk THEN "t" ELSE "f">> \o <<"}">>

\* The for loop of append_with_file: every interval, each followed by '\n'.
RECURSIVE SerializeAll(_)
SerializeAll(intervals) ==
    IF intervals = <<>> THEN <<>>
    ELSE to_writer(Head(intervals)) \o <<NL>> \o SerializeAll(Tail(intervals))

\* A String holds valid UTF-8 only: a lead byte is followed by its
\* continuation byte and a continuation byte follows a lead byte.
ValidUtf8(bytes) ==
    \A n \in 1 .. Len(bytes) :
        /\ bytes[n] = "xC3" => (n < Len(bytes) /\ bytes[n + 1] = "xA9")
        /\ bytes[n] = "xA9" => (n > 1 /\ bytes[n - 1] = "xC3")

\* JSON whitespace before and after the value is skipped.
RECURSIVE TrimLeft(_)
TrimLeft(bytes) ==
    IF bytes # <<>> /\ Head(bytes) = NL THEN TrimLeft(Tail(bytes)) ELSE bytes

RECURSIVE TrimRight(_)
TrimRight(bytes) ==
    IF bytes # <<>> /\ Last(bytes) = NL THEN TrimRight(Front(bytes)) ELSE bytes

\* The fields of the object: the bytes between the separators.
RECURSIVE Fields(_, _)
Fields(bytes, current) ==
    IF bytes = <<>> THEN <<current>>
    ELSE IF Head(bytes) = "|" THEN <<current>> \o Fields(Tail(bytes), <<>>)
    ELSE Fields(Tail(bytes), Append(current, Head(bytes)))

RECURSIVE NatValue(_)
NatValue(digits) ==
    IF Len(digits) = 1 THEN DigitValue(digits[1])
    ELSE 10 * NatValue(Front(digits)) + DigitValue(Last(digits))

\* A JSON integer: an optional minus, then digits with no leading zero.
IsNat(bytes) ==
    /\ bytes # <<>>
    /\ \A n \in 1 .. Len(bytes) : bytes[n] \in DigitBytes
    /\ (Len(bytes) > 1 => bytes[1] # "0")

IsInt(bytes) ==
    IF bytes # <<>> /\ bytes[1] = "-" THEN IsNat(Tail(bytes)) ELSE IsNat(bytes)

IntValue(bytes) ==
    IF bytes[1] = "-" THEN -NatValue(Tail(bytes)) ELSE NatValue(bytes)

IsName(bytes) == \A n \in 1 .. Len(bytes) : bytes[n] \notin Structural

\* serde_json::from_str::<UsageIntervalEntity>: Some(interval), or None for
\* an Err.  afk is #[serde(default)]: false when the field is absent.
from_str(line) ==
    LET text == TrimRight(TrimLeft(line))
        inner == SubSeq(text, 2, Len(text) - 1)
        f == Fields(inner, <<>>)
    IN  IF /\ Len(text) >= 2
           /\ text[1] = "{"
           /\ Last(text) = "}"
           /\ \A n \in 1 .. Len(inner) : inner[n] \notin {"{", "}", NL}
           /\ Len(f) \in {4, 5}
           /\ IsName(f[1])
           /\ IsName(f[2])
           /\ IsInt(f[3])
           /\ IsInt(f[4])
           /\ (Len(f) = 5 => f[5] \in {<<"t">>, <<"f">>})
        THEN Some(UsageIntervalEntity(f[1], f[2],
                                      Seconds(IntValue(f[3])),
                                      Seconds(IntValue(f[4])),
                                      Len(f) = 5 /\ f[5] = <<"t">>))
        ELSE None

(***************************************************************************)
(* get_all_inner.  BufReader::lines yields the bytes between newlines, the *)
(* bytes after the last newline included when there are any; next_line is  *)
(* an Err for a line that is not valid UTF-8.                              *)
(***************************************************************************)
RECURSIVE SplitLines(_, _)
SplitLines(bytes, current) ==
    IF bytes = <<>> THEN (IF current = <<>> THEN <<>> ELSE <<current>>)
    ELSE IF Head(bytes) = NL THEN <<current>> \o SplitLines(Tail(bytes), <<>>)
    ELSE SplitLines(Tail(bytes), Append(current, Head(bytes)))

\* while let Ok(Some(v)) = lines.next_line().await { match from_str(&v) .. }
\* The loop ends at the first line for which next_line is not Ok(Some(_)).
RECURSIVE ExtractLoop(_, _)
ExtractLoop(lines, intervals) ==
    IF lines = <<>> THEN intervals
    ELSE IF ~ValidUtf8(Head(lines)) THEN intervals
    ELSE ExtractLoop(Tail(lines), intervals \o from_str(Head(lines)))

\* What extract returns for a file it could open and lock.
extract(bytes) == [status |-> "ok", intervals |-> ExtractLoop(SplitLines(bytes, <<>>), <<>>)]

\* The match of get_all_inner on what extract returned.
get_all_inner_Propagates(extracted) == extracted

get_all_inner(extracted) ==
    IF extracted.status = "ok" THEN extracted
    ELSE IF extracted.kind = "NotFound" THEN [status |-> "ok", intervals |-> <<>>]
    ELSE extracted

(***************************************************************************)
(* seek_line_backwards: the cursor after the call, for a cursor at pos in  *)
(* a file holding bytes and a buffer of buffer_len bytes.                  *)
(***************************************************************************)
RECURSIVE SeekLoop_KeepsSkip(_, _, _, _)
SeekLoop_KeepsSkip(bytes, pos, need_to_skip, buffer_len) ==
    IF pos = 0 THEN 0
    ELSE LET next_chunk == Min(pos, buffer_len)
             found == { index \in need_to_skip .. (next_chunk - 1) :
                          bytes[pos - index] = NL }
         IN  IF found # {}
             THEN pos - (CHOOSE index \in found : \A o \in found : index <= o)
             ELSE SeekLoop_KeepsSkip(bytes, pos - next_chunk, need_to_skip, buffer_len)

RECURSIVE SeekLoop(_, _, _, _)
SeekLoop(bytes, pos, need_to_skip, buffer_len) ==
    IF pos = 0 THEN 0
    ELSE LET next_chunk == Min(pos, buffer_len)
             \* index of a byte of the chunk, counted from the chunk's end
             found == { index \in need_to_skip .. (next_chunk - 1) :
                          bytes[pos - index] = NL }
         IN  IF found # {}
             THEN pos - (CHOOSE index \in found : \A o \in found : index <= o)
             ELSE SeekLoop(bytes, pos - next_chunk, Max(need_to_skip - 1, 0), buffer_len)

seek_line_backwards_Stays(bytes, pos, buffer_len) == pos

seek_line_backwards(bytes, pos, buffer_len) == SeekLoop(bytes, pos, 1, buffer_len)

\* extract_line_backwards hands seek_line_backwards a buffer of 1024 bytes.
LINE_BUFFER_LEN == 1024

\* write_all at the cursor: the bytes there are overwritten, the file grows
\* as needed and is never cut.
WriteAt(bytes, pos, data) ==
    SubSeq(bytes, 1, pos) \o data \o SubSeq(bytes, pos + Len(data) + 1, Len(bytes))

(***************************************************************************)
(* The record file of one day, its handles (UsageIntervalRecordFile, each  *)
(* with an open file of its own) and its readers (get_all_inner).          *)
(***************************************************************************)
Handles == {"h1", "h2"}
Readers == {"r1"}
Procs == Handles \cup Readers

LongWindow == <<"V", "xC3", "xA9", "V">>

FileKeys ==
    { [window_name |-> <<"W">>, process_name |-> <<"A">>, afk |-> FALSE],
      [window_name |-> LongWindow, process_name |-> <<"A">>, afk |-> FALSE] }

FileInit ==
    /\ file = <<>>
    /\ clock = 0
    /\ appends = 0
    /\ faults = 0
    /\ committed = {<<>>}
    /\ pc = [p \in Procs |-> "idle"]
    /\ lock = [p \in Procs |-> "none"]
    /\ cursor = [p \in Procs |-> 0]
    /\ usage_record = [h \in Handles |-> <<>>]
    /\ last_line = [h \in Handles |-> <<>>]
    /\ buffer = [h \in Handles |-> <<>>]
    /\ written = [h \in Handles |-> 0]
    /\ result = [h \in Handles |-> "none"]
    /\ fault = [h \in Handles |-> "none"]
    /\ pre_file = [h \in Handles |-> <<>>]
    /\ rd_bytes = [r \in Readers |-> <<>>]

FileIdle == FileInit

\* No read has returned; the day's file exists (a handle has created it).
ReadIdle ==
    /\ present = TRUE
    /\ rd_result = [r \in Readers |-> [status |-> "none"]]

\* flock: an exclusive lock excludes every other lock on the file, a shared
\* lock excludes the exclusive ones.  lock_exclusive and lock_shared block.
CanLockExclusive(p) == \A q \in Procs \ {p} : lock[q] = "none"

CanLockShared_Always(p) == TRUE

CanLockShared(p) == \A q \in Procs \ {p} : lock[q] # "exclusive"

\* append_inner keeps the result of append_with_file and unlocks before it
\* returns it: a failed step is followed by the unlock.
PcAfterAppendWithFile_Propagate == "idle"

PcAfterAppendWithFile == "unlock"

\* The steps of append_with_file that are I/O (or serialisation) and may fail.
FallibleSteps == {"seek_end", "seek_line", "read", "seek_start", "merge", "write", "flush"}

\* The instants the next sample may be stamped with: the collector polls
\* once a second (DEFAULT_COLLECTION_INTERVAL); two samples may also fall
\* on the same tick.
NextMoments == {clock, clock + TicksPerSec} \cap (0 .. MaxFileMoment)

\* RecordFileHandle::append is called with one record.
BeginAppend(h, record) ==
    /\ pc[h] = "idle"
    /\ appends < MaxAppends
    /\ usage_record' = [usage_record EXCEPT ![h] = <<record>>]
    /\ clock' = record.moment
    /\ appends' = appends + 1
    /\ pc' = [pc EXCEPT ![h] = "lock"]
    /\ result' = [result EXCEPT ![h] = "pending"]
    /\ fault' = [fault EXCEPT ![h] = "none"]
    /\ UNCHANGED <<file, faults, committed, lock, cursor, last_line, buffer, written,
                   pre_file, rd_bytes, collapseVars, intervalVars, readVars, samples,
                   daemonVars, cliVars>>

\* append is called with one sample, stamped with one of the given
\* instants (the clock does not run backwards here).
AppendCall(h, moments) ==
    \E k \in FileKeys, m \in moments :
        BeginAppend(h, UsageRecordEntity(k.window_name, k.process_name, m, k.afk))

\* append is called with the next of the samples of the sequence.
AppendSample(h) ==
    /\ appends < Len(samples)
    /\ BeginAppend(h, samples[appends + 1])

\* self.file.lock_exclusive()?
LockExclusive(h) ==
    /\ pc[h] = "lock"
    /\ CanLockExclusive(h)
    /\ lock' = [lock EXCEPT ![h] = "exclusive"]
    /\ pre_file' = [pre_file EXCEPT ![h] = file]
    /\ pc' = [pc EXCEPT ![h] = "seek_end"]
    /\ UNCHANGED <<file, clock, appends, faults, committed, cursor, usage_record,
                   last_line, buffer, written, result, fault, rd_bytes,
                   collapseVars, intervalVars, readVars, samples, daemonVars, cliVars>>

\* lock_exclusive returns an error: append_inner returns it, no lock taken.
LockError(h) ==
    /\ pc[h] = "lock"
    /\ faults < MaxFaults
    /\ faults' = faults + 1
    /\ result' = [result EXCEPT ![h] = "err"]
    /\ fault' = [fault EXCEPT ![h] = "lock"]
    /\ pc' = [pc EXCEPT ![h] = "idle"]
    /\ UNCHANGED <<file, clock, appends, committed, lock, cursor, usage_record,
                   last_line, buffer, written, pre_file, rd_bytes,
                   collapseVars, intervalVars, readVars, samples, daemonVars, cliVars>>

\* file.seek(SeekFrom::End(0))
SeekEnd(h) ==
    /\ pc[h] = "seek_end"
    /\ cursor' = [cursor EXCEPT ![h] = Len(file)]
    /\ pc' = [pc EXCEPT ![h] = "seek_line"]
    /\ UNCHANGED <<file, clock, appends, faults, committed, lock, usage_record,
                   last_line, buffer, written, result, fault, pre_file, rd_bytes,
                   collapseVars, intervalVars, readVars, samples, daemonVars, cliVars>>

\* extract_line_backwards: seek_line_backwards(file, &mut vec![0; 1024])
SeekLine(h) ==
    /\ pc[h] = "seek_line"
    /\ cursor' = [cursor EXCEPT ![h] = seek_line_backwards(file, cursor[h], LINE_BUFFER_LEN)]
    /\ pc' = [pc EXCEPT ![h] = "read"]
    /\ UNCHANGED <<file, clock, appends, faults, committed, lock, usage_record,
                   last_line, buffer, written, result, fault, pre_file, rd_bytes,
                   collapseVars, intervalVars, readVars, samples, daemonVars, cliVars>>

\* extract_line_backwards: file.read_to_string(&mut last_line), which is an
\* error when the bytes up to the end of the file are not valid UTF-8.
ReadToString(h) ==
    /\ pc[h] = "read"
    /\ LET data == SubSeq(file, cursor[h] + 1, Len(file))
       IN  IF ValidUtf8(data)
           THEN /\ last_line' = [last_line EXCEPT ![h] = data]
                /\ cursor' = [cursor EXCEPT ![h] = Len(file)]
                /\ pc' = [pc EXCEPT ![h] = "seek_start"]
                /\ UNCHANGED <<result, fault, cliVars>>
           ELSE /\ result' = [result EXCEPT ![h] = "err"]
                /\ fault' = [fault EXCEPT ![h] = "utf8"]
                /\ pc' = [pc EXCEPT ![h] = PcAfterAppendWithFile]
                /\ cursor' = [cursor EXCEPT ![h] = Len(file)]
                /\ UNCHANGED last_line
    /\ UNCHANGED <<file, clock, appends, faults, committed, lock, usage_record,
                   buffer, written, pre_file, rd_bytes, collapseVars, intervalVars, readVars, samples, daemonVars, cliVars>>

\* file.seek(SeekFrom::Current(-(last_line.len() as i64)))
SeekStart(h) ==
    /\ pc[h] = "seek_start"
    /\ cursor' = [cursor EXCEPT ![h] = cursor[h] - Len(last_line[h])]
    /\ pc' = [pc EXCEPT ![h] = "merge"]
    /\ UNCHANGED <<file, clock, appends, faults, committed, lock, usage_record,
                   last_line, buffer, written, result, fault, pre_file, rd_bytes,
                   collapseVars, intervalVars, readVars, samples, daemonVars, cliVars>>

\* Parse the last line, collapse, serialise into buffer.
Merge(h) ==
    /\ pc[h] = "merge"
    /\ LET last_interval == IF last_line[h] = <<>> THEN None ELSE from_str(last_line[h])
           collapsed == collapse_records(last_interval, usage_record[h])
       IN  buffer' = [buffer EXCEPT ![h] = SerializeAll(collapsed)]
    /\ written' = [written EXCEPT ![h] = 0]
    /\ pc' = [pc EXCEPT ![h] = "write"]
    /\ UNCHANGED <<file, clock, appends, faults, committed, lock, cursor, usage_record,
                   last_line, result, fault, pre_file, rd_bytes,
                   collapseVars, intervalVars, readVars, samples, daemonVars, cliVars>>

\* file.write_all(&buffer): the bytes reach the file in one write or in
\* several; a short write is followed here a byte at a time.
WriteChunk(h) ==
    /\ pc[h] = "write"
    /\ written[h] < Len(buffer[h])
    /\ \E n \in {1, Len(buffer[h]) - written[h]} :
          /\ file' = WriteAt(file, cursor[h], SubSeq(buffer[h], written[h] + 1, written[h] + n))
          /\ cursor' = [cursor EXCEPT ![h] = cursor[h] + n]
          /\ written' = [written EXCEPT ![h] = written[h] + n]
    /\ UNCHANGED <<clock, appends, faults, committed, pc, lock, usage_record,
                   last_line, buffer, result, fault, pre_file, rd_bytes,
                   collapseVars, intervalVars, readVars, samples, daemonVars, cliVars>>

WriteDone(h) ==
    /\ pc[h] = "write"
    /\ written[h] = Len(buffer[h])
    /\ pc' = [pc EXCEPT ![h] = "flush"]
    /\ UNCHANGED <<file, clock, appends, faults, committed, lock, cursor, usage_record,
                   last_line, buffer, written, result, fault, pre_file, rd_bytes,
                   collapseVars, intervalVars, readVars, samples, daemonVars, cliVars>>

\* file.flush() and Ok(()): append_with_file returns, its locals are gone.
Flush(h) ==
    /\ pc[h] = "flush"
    /\ result' = [result EXCEPT ![h] = "ok"]
    /\ pc' = [pc EXCEPT ![h] = PcAfterAppendWithFile]
    /\ last_line' = [last_line EXCEPT ![h] = <<>>]
    /\ buffer' = [buffer EXCEPT ![h] = <<>>]
    /\ written' = [written EXCEPT ![h] = 0]
    /\ UNCHANGED <<file, clock, appends, faults, committed, lock, cursor, usage_record,
                   fault, pre_file, rd_bytes, collapseVars, intervalVars, readVars, samples, daemonVars, cliVars>>

\* self.file.unlock_async() and the return of the kept result
Unlock(h) ==
    /\ pc[h] = "unlock"
    /\ lock' = [lock EXCEPT ![h] = "none"]
    /\ committed' = committed \cup {file}
    /\ pc' = [pc EXCEPT ![h] = "idle"]
    /\ UNCHANGED <<file, clock, appends, faults, cursor, usage_record,
                   last_line, buffer, written, result, fault, pre_file, rd_bytes,
                   collapseVars, intervalVars, readVars, samples, daemonVars, cliVars>>

\* A step of append_with_file returns an error (the ? operator).
IoError(h) ==
    /\ pc[h] \in FallibleSteps
    /\ faults < MaxFaults
    /\ faults' = faults + 1
    /\ result' = [result EXCEPT ![h] = "err"]
    /\ fault' = [fault EXCEPT ![h] = pc[h]]
    /\ pc' = [pc EXCEPT ![h] = PcAfterAppendWithFile]
    /\ last_line' = [last_line EXCEPT ![h] = <<>>]
    /\ buffer' = [buffer EXCEPT ![h] = <<>>]
    /\ written' = [written EXCEPT ![h] = 0]
    /\ UNCHANGED <<file, clock, appends, committed, lock, cursor, usage_record,
                   pre_file, rd_bytes, collapseVars, intervalVars, readVars, samples, daemonVars, cliVars>>

\* The process dies during an append: the file keeps what was written, the
\* system drops the lock, and the day file is opened again on restart.
Crash(h) ==
    /\ pc[h] # "idle"
    /\ faults < MaxFaults
    /\ faults' = faults + 1
    /\ result' = [result EXCEPT ![h] = "crashed"]
    /\ fault' = [fault EXCEPT ![h] = "crash"]
    /\ lock' = [lock EXCEPT ![h] = "none"]
    /\ pc' = [pc EXCEPT ![h] = "idle"]
    /\ cursor' = [cursor EXCEPT ![h] = 0]
    /\ usage_record' = [usage_record EXCEPT ![h] = <<>>]
    /\ last_line' = [last_line EXCEPT ![h] = <<>>]
    /\ buffer' = [buffer EXCEPT ![h] = <<>>]
    /\ written' = [written EXCEPT ![h] = 0]
    /\ UNCHANGED <<file, clock, appends, committed, pre_file, rd_bytes,
                   collapseVars, intervalVars, readVars, samples, daemonVars, cliVars>>

\* get_all_inner::extract: File::open of a file that exists
ReaderOpen(r) ==
    /\ pc[r] \in {"idle", "done"}
    /\ present
    /\ cursor' = [cursor EXCEPT ![r] = 0]
    /\ rd_bytes' = [rd_bytes EXCEPT ![r] = <<>>]
    /\ rd_result' = [rd_result EXCEPT ![r] = [status |-> "none"]]
    /\ pc' = [pc EXCEPT ![r] = "lock_shared"]
    /\ UNCHANGED <<file, clock, appends, faults, committed, lock, usage_record,
                   last_line, buffer, written, result, fault, pre_file, present,
                   collapseVars, intervalVars, samples, daemonVars, cliVars>>

\* File::open of a file that does not exist: extract returns the NotFound
\* error with ?, and File::open without create(true) creates nothing.
ReaderOpenNotFound(r) ==
    /\ pc[r] \in {"idle", "done"}
    /\ ~present
    /\ rd_bytes' = [rd_bytes EXCEPT ![r] = <<>>]
    /\ rd_result' = [rd_result EXCEPT ![r] =
                        get_all_inner([status |-> "err", kind |-> "NotFound"])]
    /\ pc' = [pc EXCEPT ![r] = "done"]
    /\ UNCHANGED <<file, clock, appends, faults, committed, lock, cursor, usage_record,
                   last_line, buffer, written, result, fault, pre_file, present,
                   collapseVars, intervalVars, samples, daemonVars, cliVars>>

\* file.lock_shared()
LockShared(r) ==
    /\ pc[r] = "lock_shared"
    /\ CanLockShared(r)
    /\ lock' = [lock EXCEPT ![r] = "shared"]
    /\ pc' = [pc EXCEPT ![r] = "reading"]
    /\ UNCHANGED <<file, clock, appends, faults, committed, cursor, usage_record,
                   last_line, buffer, written, result, fault, pre_file, rd_bytes,
                   collapseVars, intervalVars, readVars, samples, daemonVars, cliVars>>

\* BufReader fills its buffer: one read returns all the bytes that follow
\* or fewer; a short read is followed here a byte at a time.
ReadChunk(r) ==
    /\ pc[r] = "reading"
    /\ cursor[r] < Len(file)
    /\ \E n \in {1, Len(file) - cursor[r]} :
          /\ rd_bytes' = [rd_bytes EXCEPT ![r] =
                            rd_bytes[r] \o SubSeq(file, cursor[r] + 1, cursor[r] + n)]
          /\ cursor' = [cursor EXCEPT ![r] = cursor[r] + n]
    /\ UNCHANGED <<file, clock, appends, faults, committed, pc, lock, usage_record,
                   last_line, buffer, written, result, fault, pre_file,
                   collapseVars, intervalVars, readVars, samples, daemonVars, cliVars>>

\* The read at the end of the file returns nothing: next_line is Ok(None).
ReadEof(r) ==
    /\ pc[r] = "reading"
    /\ cursor[r] >= Len(file)
    /\ pc' = [pc EXCEPT ![r] = "rd_unlock"]
    /\ UNCHANGED <<file, clock, appends, faults, committed, lock, cursor, usage_record,
                   last_line, buffer, written, result, fault, pre_file, rd_bytes,
                   collapseVars, intervalVars, readVars, samples, daemonVars, cliVars>>

\* unlock_async and Ok(intervals): the intervals the loop pushed for the
\* lines it read.
ReaderUnlock(r) ==
    /\ pc[r] = "rd_unlock"
    /\ lock' = [lock EXCEPT ![r] = "none"]
    /\ rd_result' = [rd_result EXCEPT ![r] = get_all_inner(extract(rd_bytes[r]))]
    /\ pc' = [pc EXCEPT ![r] = "done"]
    /\ UNCHANGED <<file, clock, appends, faults, committed, cursor, usage_record,
                   last_line, buffer, written, result, fault, pre_file, rd_bytes, present,
                   collapseVars, intervalVars, samples, daemonVars, cliVars>>

AppendStep(h) ==
    \/ LockExclusive(h)
    \/ SeekEnd(h)
    \/ SeekLine(h)
    \/ ReadToString(h)
    \/ SeekStart(h)
    \/ Merge(h)
    \/ WriteChunk(h)
    \/ WriteDone(h)
    \/ Flush(h)
    \/ Unlock(h)

ReadStep(r) ==
    \/ ReaderOpen(r)
    \/ LockShared(r)
    \/ ReadChunk(r)
    \/ ReadEof(r)
    \/ ReaderUnlock(r)

(***************************************************************************)
(* The daemon (daemon/mod.rs): the collector (DataCollectionModule) stamps *)
(* a sample on every tick and sends it on a bounded channel; the processor *)
(* (ProcessingModule with a LocalSaver) receives the samples and appends   *)
(* each to the record file of the date the clock shows at that moment.     *)
(***************************************************************************)
\* A calendar day of the model, in seconds: long enough for two ticks of
\* the collector, so that a run crosses midnight.
DAY_SECONDS == 2

date_naive_SameDay(instant) == 0

\* DateTime::date_naive: days are numbered from 0.
date_naive(instant) == instant \div Seconds(DAY_SECONDS)

COLLECTION_SECONDS == 1
DEFAULT_COLLECTION_INTERVAL == Seconds(COLLECTION_SECONDS)

\* mpsc::channel::<RecordEvent>(10)
CHANNEL_CAPACITY == 10

\* The instant at which a collector finds the channel full while the
\* processor still holds the first sample it received.
QueueHorizon == (CHANNEL_CAPACITY + 1) * DEFAULT_COLLECTION_INTERVAL

\* The dates a run of the model can see.
Dates == 0 .. (Max(MaxNow, QueueHorizon) \div Seconds(DAY_SECONDS))

\* What the window manager may report as the active window.
ProbeKeys ==
    { [window_name |-> <<"W">>, process_name |-> <<"A">>, afk |-> FALSE],
      [window_name |-> <<"V">>, process_name |-> <<"B">>, afk |-> FALSE] }

RecordEvent(w, p, a, t) ==
    [window_name |-> w, process_name |-> p, afk |-> a, timestamp |-> t]

\* process_next: the UsageRecordEntity made of a RecordEvent.
RecordOf(message) ==
    UsageRecordEntity(message.window_name, message.process_name,
                      message.timestamp, message.afk)

\* append_with_file on a file no other handle is writing: the status it
\* returns and the bytes it leaves.
append_with_file(bytes, usage_records) ==
    LET line_start == seek_line_backwards(bytes, Len(bytes), LINE_BUFFER_LEN)
        line == SubSeq(bytes, line_start + 1, Len(bytes))
    IN  IF ~ValidUtf8(line) THEN [status |-> "err", bytes |-> bytes]
        ELSE LET last_interval == IF line = <<>> THEN None ELSE from_str(line)
                 data == SerializeAll(collapse_records(last_interval, usage_records))
             IN  [status |-> "ok",
                  bytes |-> WriteAt(bytes, Len(bytes) - Len(line), data)]

\* The same append cut by an I/O error after n bytes of write_all.
append_cut(bytes, usage_records, n) ==
    LET line_start == seek_line_backwards(bytes, Len(bytes), LINE_BUFFER_LEN)
        line == SubSeq(bytes, line_start + 1, Len(bytes))
        last_interval == IF line = <<>> \/ ~ValidUtf8(line) THEN None ELSE from_str(line)
        data == SerializeAll(collapse_records(last_interval, usage_records))
    IN  IF ~ValidUtf8(line) THEN bytes
        ELSE WriteAt(bytes, Len(bytes) - Len(line), SubSeq(data, 1, n))

\* The daemon is not running and the record directory is empty.
DaemonStopped ==
    /\ now = 0
    /\ cancelled = FALSE
    /\ c_pc = "off"
    /\ collection_point = 0
    /\ c_record = None
    /\ queue = <<>>
    /\ p_pc = "off"
    /\ p_record = None
    /\ current_handle = None
    /\ active_file = None
    /\ clock_seen = <<>>
    /\ stats = [enqueued |-> 0, skipped |-> 0, ok |-> 0, err |-> 0]

DaemonIdle ==
    /\ DaemonStopped
    /\ day_files = [d \in Dates |-> None]

\* No query is running.
ExtractIdle ==
    /\ x_config = [start |-> 0, end |-> 0]
    /\ x_current = 0
    /\ x_files = <<>>
    /\ x_result = <<>>
    /\ x_read = [d \in Dates |-> [status |-> "none"]]

\* clean_time_start has not been called.
CleanIdle == cl_arg = None /\ cl_ret = None

\* sliding_interval_grouping has not been called.
GroupIdle ==
    /\ g_scale = None
    /\ g_zone = 0
    /\ g_input = <<>>
    /\ g_values = <<>>
    /\ g_backlog = None
    /\ g_start = 0
    /\ g_end = 0
    /\ g_collected = <<>>
    /\ g_pc = "off"

\* No timeline command is being processed.
TimelineIdle == t_command = None /\ t_pc = "off" /\ t_opened = {} /\ t_range = None

\* No bucket is being analyzed.
AnalyzeIdle == a_arg = None /\ a_ret = None

CliIdle == ExtractIdle /\ CleanIdle /\ GroupIdle /\ TimelineIdle /\ AnalyzeIdle

\* start_daemon: both tasks are at the top of their loops; collection_point
\* is time_provider.instant().
DaemonInit ==
    /\ now = 0
    /\ cancelled = FALSE
    /\ c_pc = "collect"
    /\ collection_point = 0
    /\ c_record = None
    /\ queue = <<>>
    /\ p_pc = "recv"
    /\ p_record = None
    /\ current_handle = None
    /\ active_file = None
    /\ clock_seen = <<>>
    /\ day_files = [d \in Dates |-> None]
    /\ stats = [enqueued |-> 0, skipped |-> 0, ok |-> 0, err |-> 0]

\* The match of run on collect_data's Err only logs: the loop goes on to
\* the select.
PcAfterCollectErr_Returns == "returned"

PcAfterCollectErr == "select"

\* The match of ProcessingModule::run on process_next's Err only logs: the
\* loop goes on to the next recv.
PcAfterProcessNextErr_Returns == "returned"

PcAfterProcessNextErr == "recv"

\* The only Sender is the collector's: it is dropped when run returns.
SenderDropped_Never == FALSE

SenderDropped == c_pc = "returned"

\* The instant move_file_handle last read the clock at, if it has.
LastSeen(seen) == IF seen = <<>> THEN <<>> ELSE <<seen[Len(seen)]>>

\* The collector is waiting: on its timer, on room in the channel, or gone.
CollectorWaits ==
    \/ c_pc \in {"off", "returned"}
    \/ (c_pc = "select" /\ now < collection_point)
    \/ (c_pc = "send" /\ Len(queue) >= CHANNEL_CAPACITY)

\* Time passes, up to the horizon.  With prompt, the collector's steps take
\* no time: the clock moves only while the collector waits.
Tick(horizon, prompt) ==
    /\ now < horizon
    /\ prompt => CollectorWaits
    /\ now' = now + 1
    /\ UNCHANGED <<cancelled, c_pc, collection_point, c_record, queue, p_pc, p_record,
                   current_handle, active_file, clock_seen, day_files, stats,
                   collapseVars, intervalVars, fileVars, readVars, samples, cliVars>>

\* detect_shutdown: ctrl_c arrives and the token is cancelled.
Cancel ==
    /\ ~cancelled
    /\ cancelled' = TRUE
    /\ UNCHANGED <<now, c_pc, collection_point, c_record, queue, p_pc, p_record,
                   current_handle, active_file, clock_seen, day_files, stats,
                   collapseVars, intervalVars, fileVars, readVars, samples, cliVars>>

\* run: collection_point += collection_frequency; collect_data is Ok with
\* the active window, afk and timestamp = time_provider.time().
CollectOk(keys) ==
    /\ c_pc = "collect"
    /\ collection_point' = collection_point + DEFAULT_COLLECTION_INTERVAL
    /\ \E k \in keys :
          c_record' = Some(RecordEvent(k.window_name, k.process_name, k.afk, now))
    /\ c_pc' = "send"
    /\ UNCHANGED <<now, cancelled, queue, p_pc, p_record,
                   current_handle, active_file, clock_seen, day_files, stats,
                   collapseVars, intervalVars, fileVars, readVars, samples, cliVars>>

\* collect_data is Err (get_active_window_data or get_idle_time failed):
\* the error is logged and run goes to the select.
CollectErr ==
    /\ c_pc = "collect"
    /\ collection_point' = collection_point + DEFAULT_COLLECTION_INTERVAL
    /\ stats' = [stats EXCEPT !.skipped = stats.skipped + 1]
    /\ c_pc' = PcAfterCollectErr
    /\ UNCHANGED <<now, cancelled, c_record, queue, p_pc, p_record,
                   current_handle, active_file, clock_seen, day_files,
                   collapseVars, intervalVars, fileVars, readVars, samples, cliVars>>

\* self.next.send(record).await: completes when the channel has room.
Send ==
    /\ c_pc = "send"
    /\ Len(queue) < CHANNEL_CAPACITY
    /\ queue' = Append(queue, c_record[1])
    /\ c_record' = None
    /\ stats' = [stats EXCEPT !.enqueued = stats.enqueued + 1]
    /\ c_pc' = "select"
    /\ UNCHANGED <<now, cancelled, collection_point, p_pc, p_record,
                   current_handle, active_file, clock_seen, day_files,
                   collapseVars, intervalVars, fileVars, readVars, samples, cliVars>>

\* select!: the shutdown branch; run returns Ok and the sender is dropped.
SelectCancelled ==
    /\ c_pc = "select"
    /\ cancelled
    /\ c_pc' = "returned"
    /\ UNCHANGED <<now, cancelled, collection_point, c_record, queue, p_pc, p_record,
                   current_handle, active_file, clock_seen, day_files, stats,
                   collapseVars, intervalVars, fileVars, readVars, samples, cliVars>>

\* select!: the sleep_until(collection_point) branch.
SelectSlept ==
    /\ c_pc = "select"
    /\ now >= collection_point
    /\ c_pc' = "collect"
    /\ UNCHANGED <<now, cancelled, collection_point, c_record, queue, p_pc, p_record,
                   current_handle, active_file, clock_seen, day_files, stats,
                   collapseVars, intervalVars, fileVars, readVars, samples, cliVars>>

\* ProcessingModule::run: receiver.recv() returns Some(record).
Recv ==
    /\ p_pc = "recv"
    /\ queue # <<>>
    /\ p_record' = Some(Head(queue))
    /\ queue' = Tail(queue)
    /\ p_pc' = "move_file_handle"
    /\ UNCHANGED <<now, cancelled, c_pc, collection_point, c_record,
                   current_handle, active_file, clock_seen, day_files, stats,
                   collapseVars, intervalVars, fileVars, readVars, samples, cliVars>>

\* recv() returns None: the channel is empty and the sender is dropped.
RecvClosed ==
    /\ p_pc = "recv"
    /\ queue = <<>>
    /\ SenderDropped
    /\ p_pc' = "finalize"
    /\ UNCHANGED <<now, cancelled, c_pc, collection_point, c_record, queue, p_record,
                   current_handle, active_file, clock_seen, day_files, stats,
                   collapseVars, intervalVars, fileVars, readVars, samples, cliVars>>

\* LocalSaver::move_file_handle: current_handle.take(), the date of the
\* clock, and the handle kept when it is of that date; otherwise
\* create_or_append_record(now), which creates the file when it is absent.
MoveFileHandle ==
    /\ p_pc = "move_file_handle"
    /\ LET today == date_naive(now)
       IN  IF current_handle # None /\ current_handle[1].date = today
           THEN /\ active_file' = current_handle
                /\ UNCHANGED day_files
           ELSE /\ active_file' = Some([date |-> today])
                /\ day_files' = [day_files EXCEPT ![today] =
                                    IF day_files[today] = None THEN Some(<<>>)
                                    ELSE day_files[today]]
    /\ current_handle' = None
    /\ clock_seen' = LastSeen(clock_seen) \o <<now>>
    /\ p_pc' = "append"
    /\ UNCHANGED <<now, cancelled, c_pc, collection_point, c_record, queue, p_record,
                   stats,
                   collapseVars, intervalVars, fileVars, readVars, samples, cliVars>>

\* create_or_append_record is Err: process_next returns it with ? and run
\* logs it.
MoveFileHandleErr ==
    /\ p_pc = "move_file_handle"
    /\ stats.err < MaxFaults
    /\ current_handle' = None
    /\ clock_seen' = LastSeen(clock_seen) \o <<now>>
    /\ p_record' = None
    /\ stats' = [stats EXCEPT !.err = stats.err + 1]
    /\ p_pc' = PcAfterProcessNextErr
    /\ UNCHANGED <<now, cancelled, c_pc, collection_point, c_record, queue,
                   active_file, day_files,
                   collapseVars, intervalVars, fileVars, readVars, samples, cliVars>>

\* active_file.append(vec![record]) returns; process_next returns what it
\* returned and drops active_file; run logs the result.
AppendReturns ==
    /\ p_pc = "append"
    /\ LET date == active_file[1].date
           done == append_with_file(day_files[date][1], <<RecordOf(p_record[1])>>)
       IN  /\ day_files' = [day_files EXCEPT ![date] = Some(done.bytes)]
           /\ stats' = IF done.status = "ok"
                       THEN [stats EXCEPT !.ok = stats.ok + 1]
                       ELSE [stats EXCEPT !.err = stats.err + 1]
           /\ p_pc' = IF done.status = "ok" THEN "recv" ELSE PcAfterProcessNextErr
    /\ active_file' = None
    /\ p_record' = None
    /\ UNCHANGED <<now, cancelled, c_pc, collection_point, c_record, queue,
                   current_handle, clock_seen,
                   collapseVars, intervalVars, fileVars, readVars, samples, cliVars>>

\* append fails with an I/O error, before write_all or one byte into it.
AppendErr ==
    /\ p_pc = "append"
    /\ stats.err < MaxFaults
    /\ LET date == active_file[1].date
       IN  /\ \E n \in {0, 1} :
                day_files' = [day_files EXCEPT ![date] =
                    Some(append_cut(day_files[date][1], <<RecordOf(p_record[1])>>, n))]
    /\ stats' = [stats EXCEPT !.err = stats.err + 1]
    /\ active_file' = None
    /\ p_record' = None
    /\ p_pc' = PcAfterProcessNextErr
    /\ UNCHANGED <<now, cancelled, c_pc, collection_point, c_record, queue,
                   current_handle, clock_seen,
                   collapseVars, intervalVars, fileVars, readVars, samples, cliVars>>

\* processor.finalize() (a flush of current_handle, which does nothing),
\* receiver.close(), and run returns.
Finalize ==
    /\ p_pc = "finalize"
    /\ p_pc' = "returned"
    /\ UNCHANGED <<now, cancelled, c_pc, collection_point, c_record, queue, p_record,
                   current_handle, active_file, clock_seen, day_files, stats,
                   collapseVars, intervalVars, fileVars, readVars, samples, cliVars>>

CollectorStep(keys) ==
    \/ CollectOk(keys)
    \/ Send
    \/ SelectSlept

ProcessorStep ==
    \/ Recv
    \/ MoveFileHandle
    \/ AppendReturns

(***************************************************************************)
(* SpecCollapse: one run of collapse_records, a record at a time.          *)
(***************************************************************************)
Moments == 0 .. MaxMoment

Records == { UsageRecordEntity(k.window_name, k.process_name, m, k.afk) :
                k \in Keys, m \in Moments }

\* Intervals as a record file holds them: whole seconds.
CarriedIntervals ==
    { UsageIntervalEntity(k.window_name, k.process_name, Seconds(s), Seconds(d), k.afk) :
        k \in Keys, s \in 0 .. 1, d \in 0 .. MaxCarried }

IntervalIdle == iv = None /\ iv_op = [op |-> "none"]
CollapseIdle == c_last = None /\ c_records = <<>> /\ c_intervals = <<>>

CollapseInit ==
    /\ c_last \in {None} \cup { Some(i) : i \in CarriedIntervals }
    /\ c_records = <<>>
    /\ c_intervals = c_last
    /\ IntervalIdle
    /\ FileIdle
    /\ ReadIdle
    /\ samples = <<>>
    /\ DaemonIdle
    /\ CliIdle

CollapseNext ==
    /\ Len(c_last) + Len(c_records) < MaxRecords
    /\ \E record \in Records :
          /\ c_intervals' = CollapseRecord(c_intervals, record)
          /\ c_records' = Append(c_records, record)
    /\ UNCHANGED <<c_last, intervalVars, fileVars, readVars, samples, daemonVars, cliVars>>

SpecCollapse == CollapseInit /\ [][CollapseNext]_vars

(***************************************************************************)
(* SpecInterval: split_by and clamp applied to one interval.               *)
(***************************************************************************)
IntervalInputs ==
    { UsageIntervalEntity(k.window_name, k.process_name, s, d, k.afk) :
        k \in Keys, s \in 0 .. MaxStart, d \in 0 .. MaxDuration }

Instants == 0 .. (MaxStart + MaxDuration + 1)

IntervalInit ==
    /\ iv \in IntervalInputs
    /\ iv_op = [op |-> "none"]
    /\ CollapseIdle
    /\ FileIdle
    /\ ReadIdle
    /\ samples = <<>>
    /\ DaemonIdle
    /\ CliIdle

SplitBy ==
    /\ \E split \in Instants :
          iv_op' = [op |-> "split_by", split |-> split,
                    before |-> split_by(iv, split)[1],
                    after |-> split_by(iv, split)[2]]
    /\ UNCHANGED <<iv, collapseVars, fileVars, readVars, samples, daemonVars, cliVars>>

Clamp ==
    /\ \E from \in Instants, to \in Instants :
          /\ from < to
          /\ iv_op' = [op |-> "clamp", from |-> from, to |-> to,
                       result |-> clamp(iv, from, to)]
    /\ UNCHANGED <<iv, collapseVars, fileVars, readVars, samples, daemonVars, cliVars>>

IntervalNext == SplitBy \/ Clamp

SpecInterval == IntervalInit /\ [][IntervalNext]_vars

(***************************************************************************)
(* Claims about collapse_records (SpecCollapse).                           *)
(***************************************************************************)
TwoSameKeySamples ==
    /\ c_last = None
    /\ Len(c_records) = 2
    /\ KeyOf(c_records[1]) = KeyOf(c_records[2])
    /\ c_records[1].moment < c_records[2].moment

OneIntervalSpanningBoth ==
    c_intervals = << UsageIntervalEntity(c_records[1].window_name,
                                         c_records[1].process_name,
                                         c_records[1].moment,
                                         c_records[2].moment - c_records[1].moment,
                                         c_records[1].afk) >>

\* C1 as stated: two samples of one key at t1 < t2, whatever t2 - t1 is, and
\* no carried interval collapse into the single interval [t1, t2].
C1_AnyGapOneInterval == TwoSameKeySamples => OneIntervalSpanningBoth

\* C1 amended: two samples of one key at t1 < t2 with t2 - t1 below 2 s and
\* no carried interval collapse into the single interval [t1, t2].
C1_SmallGapOneInterval ==
    (TwoSameKeySamples /\ c_records[2].moment - c_records[1].moment < Seconds(2))
        => OneIntervalSpanningBoth

C1_Witness ==
    /\ TwoSameKeySamples
    /\ c_records[1].moment > 0
    /\ c_records[2].moment - c_records[1].moment < Seconds(2)
    /\ Len(c_intervals) = 1

GapsBelowMerge ==
    \A n \in 1 .. (Len(c_records) - 1) :
        /\ c_records[n + 1].moment - c_records[n].moment >= 0
        /\ c_records[n + 1].moment - c_records[n].moment < Seconds(2)

\* C2: with no carried interval and every gap between consecutive samples
\* below 2 s, each output interval after the first starts at the end of the
\* interval before it.
C2_IntervalsAbut ==
    (c_last = None /\ GapsBelowMerge)
        => \A n \in 2 .. Len(c_intervals) :
              c_intervals[n].start = end(c_intervals[n - 1])

NewRecord == Last(c_records')

\* C3: a record whose key differs from the last interval (or with no last
\* interval) appends a zero-duration interval of the record's key, starting
\* at the end of the last interval when the record is less than 2 s after
\* it and at the record's moment otherwise; the intervals before stay as
\* they were.
C3_DifferentKeyAppends ==
    [][ (c_records' # c_records
         /\ (c_intervals = <<>> \/ KeyOf(Last(c_intervals)) # KeyOf(NewRecord)))
        => c_intervals' =
             Append(c_intervals,
                    UsageIntervalEntity(
                        NewRecord.window_name, NewRecord.process_name,
                        IF c_intervals # <<>>
                           /\ NewRecord.moment - end(Last(c_intervals)) < Seconds(2)
                        THEN end(Last(c_intervals))
                        ELSE NewRecord.moment,
                        0, NewRecord.afk)) ]_vars

C3_Witness ==
    /\ Len(c_records) >= 1
    /\ Len(c_intervals) >= 2
    /\ KeyOf(Last(c_intervals)) = KeyOf(Last(c_records))
    /\ KeyOf(Last(c_intervals)) # KeyOf(c_intervals[Len(c_intervals) - 1])
    /\ Last(c_intervals).start = end(c_intervals[Len(c_intervals) - 1])
    /\ Last(c_intervals).start < Last(c_records).moment
    /\ Last(c_intervals).duration = 0

\* C4: a record of the last interval's key that comes 2 s or more after the
\* end of that interval leaves it as it is and appends a zero-duration
\* interval starting at the record's moment.
C4_LongGapNotAbsorbed ==
    [][ (c_records' # c_records
         /\ c_intervals # <<>>
         /\ KeyOf(Last(c_intervals)) = KeyOf(NewRecord)
         /\ NewRecord.moment - end(Last(c_intervals)) >= Seconds(2))
        => c_intervals' =
             Append(c_intervals,
                    UsageIntervalEntity(NewRecord.window_name, NewRecord.process_name,
                                        NewRecord.moment, 0, NewRecord.afk)) ]_vars

C4_Witness ==
    /\ c_last # None
    /\ Len(c_records) = 1
    /\ Len(c_intervals) = 2
    /\ c_intervals[1] = c_last[1]
    /\ KeyOf(c_intervals[2]) = KeyOf(c_intervals[1])
    /\ c_intervals[2].start = c_records[1].moment
    /\ c_intervals[2].start - end(c_intervals[1]) >= Seconds(2)
    /\ c_intervals[2].duration = 0

\* A carried interval and a batch of samples of its key, in time order, the
\* first of them at the carried interval's end.
SameKeyBatchOnCarried ==
    /\ c_last # None
    /\ Len(c_records) >= 1
    /\ \A n \in 1 .. Len(c_records) : KeyOf(c_records[n]) = KeyOf(c_last[1])
    /\ c_records[1].moment = end(c_last[1])
    /\ \A n \in 1 .. (Len(c_records) - 1) :
          c_records[n].moment <= c_records[n + 1].moment

\* One interval: the carried one, longer by tn - t1, which is also the
\* carried duration plus the duration of the batch collapsed on its own.
CarriedPlusBatch ==
    /\ c_intervals =
          << [c_last[1] EXCEPT !.duration =
                c_last[1].duration + (Last(c_records).moment - c_records[1].moment)] >>
    /\ Len(collapse_records(None, c_records)) = 1
    /\ c_intervals[1].duration =
          c_last[1].duration + collapse_records(None, c_records)[1].duration

\* C14 as stated: a batch of same-key samples t1..tn collapsed against a
\* carried interval of that key ending at t1 gives one interval whose
\* duration is the carried duration plus tn - t1, whatever the gaps are.
C14_CarriedPlusBatchAnyGap == SameKeyBatchOnCarried => CarriedPlusBatch

\* C14 amended: the same, for a batch whose consecutive samples are less
\* than 2 s apart.
C14_CarriedPlusBatchSmallGaps ==
    (SameKeyBatchOnCarried /\ GapsBelowMerge) => CarriedPlusBatch

C14_Witness ==
    /\ SameKeyBatchOnCarried
    /\ GapsBelowMerge
    /\ Len(c_records) = 2
    /\ c_last[1].duration > 0
    /\ c_records[2].moment > c_records[1].moment
    /\ Len(c_intervals) = 1

\* C30: every interval collapse_records holds has a duration of zero or
\* more, whatever the order of the samples' timestamps against the carried
\* interval.
C30_DurationsNotNegative ==
    \A n \in 1 .. Len(c_intervals) : c_intervals[n].duration >= 0

(***************************************************************************)
(* Claims about split_by and clamp (SpecInterval).                         *)
(***************************************************************************)
\* C5: split_by(t) returns (None, self) when t < start, (self, None) when
\* t >= end(), and otherwise two intervals of the same key that cover
\* [start, t) and [t, end) and whose durations add up to the original.
C5_SplitPartitions ==
    iv_op.op = "split_by" =>
        LET t == iv_op.split
            b == iv_op.before
            a == iv_op.after
        IN  /\ t < iv.start => (b = None /\ a = Some(iv))
            /\ t >= end(iv) => (b = Some(iv) /\ a = None)
            /\ (iv.start <= t /\ t < end(iv)) =>
                  /\ b # None /\ a # None
                  /\ KeyOf(b[1]) = KeyOf(iv) /\ KeyOf(a[1]) = KeyOf(iv)
                  /\ b[1].start = iv.start
                  /\ end(b[1]) = t
                  /\ a[1].start = t
                  /\ end(a[1]) = end(iv)
                  /\ b[1].duration + a[1].duration = iv.duration

C5_Witness ==
    /\ iv_op.op = "split_by"
    /\ iv.start < iv_op.split
    /\ iv_op.split < end(iv)
    /\ iv_op.before # None
    /\ iv_op.after # None

\* An interval covers [start, end); one of zero duration is the point start.
OutsideRange(i, from, to) ==
    IF i.duration = 0 THEN i.start < from \/ i.start >= to
    ELSE end(i) <= from \/ i.start >= to

InsideRange(i, from, to) ==
    IF i.duration = 0 THEN from <= i.start /\ i.start < to
    ELSE from <= i.start /\ end(i) <= to

\* C6: clamp(from, to) with from < to is None for an interval entirely
\* outside [from, to) and the interval itself for one entirely inside it,
\* zero-duration intervals and intervals starting at from or at to included.
C6_ClampOutsideInside ==
    iv_op.op = "clamp" =>
        /\ OutsideRange(iv, iv_op.from, iv_op.to) => iv_op.result = None
        /\ InsideRange(iv, iv_op.from, iv_op.to) => iv_op.result = Some(iv)

(***************************************************************************)
(* SpecFile: one handle appends to the day file; a step of an append may   *)
(* fail and the process may die.                                           *)
(***************************************************************************)
FileSpecInit ==
    /\ FileInit
    /\ CollapseIdle
    /\ IntervalIdle
    /\ ReadIdle
    /\ samples = <<>>
    /\ DaemonIdle
    /\ CliIdle

FileNext ==
    \/ AppendCall("h1", NextMoments)
    \/ AppendStep("h1")
    \/ LockError("h1")
    \/ IoError("h1")
    \/ Crash("h1")

SpecFile == FileSpecInit /\ [][FileNext]_vars

(***************************************************************************)
(* SpecConc: two handles append to the day file while a reader reads it.   *)
(***************************************************************************)
ConcNext ==
    \/ \E h \in Handles : AppendCall(h, NextMoments)
    \/ \E h \in Handles : AppendStep(h)
    \/ \E r \in Readers : ReadStep(r)

SpecConc == FileSpecInit /\ [][ConcNext]_vars

(***************************************************************************)
(* Claims about append (SpecFile).                                         *)
(***************************************************************************)
\* C7: when an append has returned Ok, the file ends where that append
\* stopped writing: nothing of the previous last line is left behind it.
C7_NoStaleBytes ==
    \A h \in Handles :
        (pc[h] = "idle" /\ result[h] = "ok") => Len(file) = cursor[h]

LastLineStart(bytes) ==
    LET ends == { n \in 1 .. (Len(bytes) - 1) : bytes[n] = NL }
    IN  IF ends = {} THEN 0 ELSE CHOOSE n \in ends : \A o \in ends : o <= n

PhysicalLastLine(bytes) == SubSeq(bytes, LastLineStart(bytes) + 1, Len(bytes))

Unparsable(line) ==
    /\ line # <<>>
    /\ (~ValidUtf8(line) \/ from_str(line) = None)

\* The append of h has returned and no I/O error was injected into it.
Returned(h) ==
    /\ pc[h] = "idle"
    /\ result[h] \in {"ok", "err"}
    /\ fault[h] \in {"none", "utf8"}

\* C10: an append to a file whose last line does not parse returns Ok and
\* leaves the file as it was up to the start of that line, followed by the
\* sample as a zero-duration interval.
C10_UnparsableLastLineReplaced ==
    \A h \in Handles :
        (Returned(h) /\ Unparsable(PhysicalLastLine(pre_file[h]))) =>
            /\ result[h] = "ok"
            /\ LET start == LastLineStart(pre_file[h])
                   line == to_writer(FromRecord(usage_record[h][1])) \o <<NL>>
               IN  SubSeq(file, 1, start + Len(line))
                     = SubSeq(pre_file[h], 1, start) \o line

(***************************************************************************)
(* Claims about concurrent appends and reads (SpecConc).                   *)
(***************************************************************************)
InAppend(h) == pc[h] \in FallibleSteps \cup {"unlock"}
InRead(r) == pc[r] \in {"reading", "rd_unlock"}

\* C8: no two appends are inside their read-merge-write steps together, no
\* read is under way while an append is inside them, and what a finished
\* read has read is the file as it was before or after a whole append.
C8_AppendAtomic ==
    /\ \A h \in Handles : \A g \in Handles \ {h} : ~(InAppend(h) /\ InAppend(g))
    /\ \A h \in Handles, r \in Readers : ~(InAppend(h) /\ InRead(r))
    /\ \A r \in Readers : pc[r] = "done" => rd_bytes[r] \in committed

C8_Witness ==
    \E h \in Handles : \E g \in Handles \ {h} : \E r \in Readers :
        /\ pc[h] = "lock"
        /\ pc[g] = "lock"
        /\ pc[r] = "rd_unlock"
        /\ lock[r] = "shared"
        /\ rd_bytes[r] = file
        /\ Cardinality(committed) >= 2

(***************************************************************************)
(* SpecSeq: a sequence of samples with whole-second timestamps that do not *)
(* decrease, appended one per append call to a fresh day file.             *)
(***************************************************************************)
WholeSeconds == { m \in 0 .. MaxFileMoment : m % TicksPerSec = 0 }

SampleSequences ==
    LET all == UNION { [1 .. n -> { UsageRecordEntity(k.window_name, k.process_name, m, k.afk) :
                                      k \in FileKeys, m \in WholeSeconds }] :
                       n \in 0 .. MaxAppends }
    IN  { q \in all : \A n \in 1 .. (Len(q) - 1) : q[n].moment <= q[n + 1].moment }

SeqInit ==
    /\ FileInit
    /\ CollapseIdle
    /\ IntervalIdle
    /\ ReadIdle
    /\ DaemonIdle
    /\ CliIdle
    /\ samples \in SampleSequences

SeqNext == AppendSample("h1") \/ AppendStep("h1")

SpecSeq == SeqInit /\ [][SeqNext]_vars

\* C13: whenever the appends made so far have returned, reading the file
\* back gives what collapse_records(None, ..) gives for the samples appended
\* so far taken as one batch.
C13_AppendsEqualBatch ==
    pc["h1"] = "idle" =>
        /\ result["h1"] \in {"none", "ok"}
        /\ get_all_inner(extract(file))
             = [status |-> "ok",
                intervals |-> collapse_records(None, SubSeq(samples, 1, appends))]

C13_Witness ==
    /\ pc["h1"] = "idle"
    /\ appends = 3
    /\ samples[1].moment = 0
    /\ samples[2].moment = Seconds(1)
    /\ samples[3].moment = Seconds(2)
    /\ KeyOf(samples[1]) # KeyOf(samples[2])
    /\ KeyOf(samples[2]) = KeyOf(samples[3])
    /\ Len(get_all_inner(extract(file)).intervals) = 3

(***************************************************************************)
(* SpecRead: get_data_for on a day whose file is absent, or holds lines of *)
(* which any may be malformed.                                             *)
(***************************************************************************)
GoodLines ==
    { to_writer(UsageIntervalEntity(<<"W">>, <<"A">>, 0, 0, FALSE)),
      to_writer(UsageIntervalEntity(LongWindow, <<"A">>, Seconds(1), Seconds(1), FALSE)) }

\* A line cut short, and one cut inside a two-byte character.
TornLines == { <<"{", "W", "|", "A", "|", "0">>, <<"{", "V", "xC3">> }

RECURSIVE JoinLines(_)
JoinLines(lines) ==
    IF lines = <<>> THEN <<>> ELSE Head(lines) \o <<NL>> \o JoinLines(Tail(lines))

\* Files of up to MaxLines lines; the last line may lack its newline.
InputFiles ==
    LET texts == UNION { [1 .. n -> GoodLines \cup TornLines] : n \in 0 .. MaxLines }
    IN  { JoinLines(t) : t \in texts }
          \cup { Front(JoinLines(t)) : t \in texts \ {<<>>} }

ReadInit ==
    /\ FileInit
    /\ CollapseIdle
    /\ IntervalIdle
    /\ samples = <<>>
    /\ DaemonIdle
    /\ CliIdle
    /\ rd_result = [r \in Readers |-> [status |-> "none"]]
    /\ present \in BOOLEAN

\* The file as it is found on disk when the read starts.
ReadFound ==
    /\ present
    /\ pc["r1"] = "idle"
    /\ file = <<>>
    /\ file' \in InputFiles \ {<<>>}
    /\ UNCHANGED <<clock, appends, faults, committed, handleVars, rd_bytes,
                   collapseVars, intervalVars, readVars, samples, daemonVars, cliVars>>

ReadNext == ReadFound \/ ReadStep("r1") \/ ReaderOpenNotFound("r1")

SpecRead == ReadInit /\ [][ReadNext]_vars

(***************************************************************************)
(* Claims about get_data_for (SpecRead).                                   *)
(***************************************************************************)
\* The intervals of the well-formed lines of a file, in file order.
RECURSIVE IntervalsOfLines(_)
IntervalsOfLines(lines) ==
    IF lines = <<>> THEN <<>>
    ELSE (IF ValidUtf8(Head(lines)) THEN from_str(Head(lines)) ELSE <<>>)
            \o IntervalsOfLines(Tail(lines))

\* C11: a read of a file with malformed lines anywhere returns Ok with the
\* intervals of all its well-formed lines, in file order.
C11_ReadKeepsWellFormedLines ==
    \A r \in Readers :
        (pc[r] = "done" /\ present) =>
            /\ rd_result[r].status = "ok"
            /\ rd_result[r].intervals = IntervalsOfLines(SplitLines(file, <<>>))

\* C12: get_data_for on a date without a record file returns Ok with an
\* empty list in one step, and the file still does not exist afterwards.
C12_AbsentFileReadsEmpty ==
    [][ \A r \in Readers :
          (~present /\ pc[r] = "idle" /\ pc'[r] # "idle") =>
              /\ pc'[r] = "done"
              /\ rd_result'[r] = [status |-> "ok", intervals |-> <<>>]
              /\ ~present'
              /\ file' = <<>> ]_vars

C12_Witness ==
    /\ ~present
    /\ pc["r1"] = "done"
    /\ rd_result["r1"].status = "ok"

(***************************************************************************)
(* SpecDaemon: the collector and the processor run together; probes,       *)
(* opens and appends may fail, and shutdown may be requested at any time.  *)
(***************************************************************************)
DaemonSpecInit ==
    /\ DaemonInit
    /\ CliIdle
    /\ CollapseIdle
    /\ IntervalIdle
    /\ FileIdle
    /\ ReadIdle
    /\ samples = <<>>

DaemonNext ==
    \/ Tick(MaxNow, FALSE)
    \/ Cancel
    \/ CollectorStep(ProbeKeys)
    \/ CollectErr
    \/ SelectCancelled
    \/ ProcessorStep
    \/ MoveFileHandleErr
    \/ AppendErr
    \/ RecvClosed
    \/ Finalize

SpecDaemon == DaemonSpecInit /\ [][DaemonNext]_vars

\* Both tasks are polled by the runtime (tokio::join!), so a step of either
\* that stays possible is taken.  An append that has started returns: the
\* step out of "append" is possible exactly when the processor is there, and
\* its weak fairness is stated on the state.
SpecDaemonLive ==
    /\ SpecDaemon
    /\ WF_vars(CollectOk(ProbeKeys))
    /\ WF_vars(Send)
    /\ WF_vars(SelectSlept)
    /\ WF_vars(SelectCancelled)
    /\ WF_vars(Recv)
    /\ WF_vars(RecvClosed)
    /\ WF_vars(MoveFileHandle)
    /\ []<>(p_pc # "append")
    /\ WF_vars(Finalize)

(***************************************************************************)
(* SpecQueue: the collector ticks on time and the store is as slow as it   *)
(* likes; nothing fails and no shutdown is requested.                      *)
(***************************************************************************)
QueueNext ==
    \/ Tick(QueueHorizon, TRUE)
    \/ CollectorStep({[window_name |-> <<"W">>, process_name |-> <<"A">>, afk |-> FALSE]})
    \/ ProcessorStep

SpecQueue == DaemonSpecInit /\ [][QueueNext]_vars

(***************************************************************************)
(* Claims about the daemon (SpecDaemon, SpecDaemonLive, SpecQueue).        *)
(***************************************************************************)
\* The UTC calendar date of an instant.
UtcDate(instant) == instant \div (DAY_SECONDS * TicksPerSec)

\* What a read of the record file of a date returns.
Stored(date) ==
    IF day_files[date] = None THEN <<>>
    ELSE get_all_inner(extract(day_files[date][1])).intervals

\* The processor is about to append a record to the file of a date other
\* than the date the clock showed for the record before it.
DateChanged ==
    /\ p_pc = "append"
    /\ Len(clock_seen) = 2
    /\ UtcDate(clock_seen[1]) # UtcDate(clock_seen[2])

\* C15: when the clock's date has changed since the previous record was
\* processed, a successful append leaves the record alone in the file of
\* the new date, as a zero-duration interval starting at the record's
\* timestamp (in the whole seconds the file keeps), and leaves the file of
\* every other date as it was.
C15_RolloverStartsFreshFile ==
    [][ (DateChanged /\ stats'.ok = stats.ok + 1) =>
          LET record == p_record[1]
              today == UtcDate(clock_seen[2])
          IN  /\ day_files'[today] # None
              /\ get_all_inner(extract(day_files'[today][1])).intervals
                   = << UsageIntervalEntity(record.window_name, record.process_name,
                                            Seconds(ts_seconds(record.timestamp)),
                                            0, record.afk) >>
              /\ \A d \in Dates \ {today} : day_files'[d] = day_files[d] ]_vars

C15_Witness ==
    /\ Len(Stored(0)) = 1
    /\ Stored(0)[1].duration = Seconds(1)
    /\ Len(Stored(1)) = 1
    /\ Stored(1)[1].duration = 0
    /\ KeyOf(Stored(1)[1]) # KeyOf(Stored(0)[1])
    /\ stats.ok = 3
    /\ p_pc = "recv"

\* C16: every interval in the record file of a date starts on that date.
C16_IntervalsOnFileDate ==
    \A d \in Dates :
        \A n \in 1 .. Len(Stored(d)) : UtcDate(Stored(d)[n].start) = d

\* C17: a failed process_next takes the processor back to recv with the
\* queue as it was; the processor leaves its loop only when the sender is
\* gone and the queue is empty, and by then every sample that was enqueued
\* has been processed, successfully or not.
C17_ErrorsOnlyLogged ==
    /\ [][ stats'.err = stats.err + 1 => (p_pc' = "recv" /\ queue' = queue) ]_vars
    /\ [](p_pc \in {"finalize", "returned"} =>
            /\ c_pc = "returned"
            /\ queue = <<>>
            /\ stats.enqueued = stats.ok + stats.err)

C17_Witness ==
    /\ stats.err = 1
    /\ stats.ok = 0
    /\ p_pc = "append"
    /\ queue # <<>>

\* C18: the collector never waits for the store: whenever it is at the send
\* while the processor is still inside an append, the channel has room for
\* the sample.
C18_SendNeverWaits ==
    (c_pc = "send" /\ p_pc = "append") => Len(queue) < CHANNEL_CAPACITY

\* C19: once the shutdown token is cancelled, the collector returns, the
\* processor handles every sample enqueued and returns after finalize, and
\* the queue is left empty.
C19_ShutdownDrains ==
    cancelled ~> (/\ c_pc = "returned"
                  /\ p_pc = "returned"
                  /\ queue = <<>>
                  /\ p_record = None
                  /\ stats.enqueued = stats.ok + stats.err)

C19_Witness ==
    /\ cancelled
    /\ c_pc = "returned"
    /\ p_pc = "append"
    /\ Len(queue) >= 1

\* C20: a tick on which collect_data fails enqueues nothing and hands
\* nothing to send, and the collector goes on to the select of that tick.
C20_FailedProbeSkipsTick ==
    [][ stats'.skipped = stats.skipped + 1 =>
          /\ queue' = queue
          /\ c_record' = None
          /\ stats'.enqueued = stats.enqueued
          /\ c_pc' = "select" ]_vars

C20_Witness ==
    /\ stats.skipped = 1
    /\ stats.enqueued = 0
    /\ c_pc = "send"
    /\ c_record # None
    /\ c_record[1].timestamp >= DEFAULT_COLLECTION_INTERVAL

(***************************************************************************)
(* extract_between (cli/output/mod.rs): the dates of the range are read    *)
(* with up to four get_data_for calls in progress, and the intervals read  *)
(* are clamped to the range.                                               *)
(***************************************************************************)
\* .buffered(4)
BUFFER_SIZE == 4

\* The record directory a query reads: two days in three have a file, of
\* two intervals in whole seconds, the second of zero duration on even
\* dates.
Archive ==
    [d \in Dates |->
        IF d % 3 = 2 THEN None
        ELSE Some(SerializeAll(
                << UsageIntervalEntity(<<"W">>, <<"A">>,
                                       Seconds(d * DAY_SECONDS), Seconds(1), FALSE),
                   UsageIntervalEntity(<<"V">>, <<"B">>,
                                       Seconds(d * DAY_SECONDS + 1), Seconds(d % 2), FALSE) >>))]

\* RecordStorageImpl::get_data_for(day) when no I/O error occurs.
get_data_for(day) ==
    IF day_files[day] = None
    THEN get_all_inner([status |-> "err", kind |-> "NotFound"])
    ELSE get_all_inner(extract(day_files[day][1]))

\* The futures of `files` whose output buffered(4) may yield next.
ReadyPositions_Unordered(files) ==
    { n \in 1 .. Len(files) : files[n].data.status # "pending" }

ReadyPositions(files) ==
    IF files # <<>> /\ files[1].data.status # "pending" THEN {1} ELSE {}

\* flat_map's Err arm: the error is logged and yielded as the day's only item.
ErrItems_Dropped(day) == <<>>

ErrItems(day) == << [day |-> day, n |-> 1, item |-> [status |-> "err"]] >>

\* filter_map over the items of one day: config.filter keeps the clamped
\* interval, or drops the item when clamp returns None.
RECURSIVE FilterMap(_, _, _, _)
FilterMap(day, data, n, config) ==
    IF n > Len(data) THEN <<>>
    ELSE LET filtered == clamp(data[n], config.start, config.end)
         IN  (IF filtered = None THEN <<>>
              ELSE << [day |-> day, n |-> n,
                       item |-> [status |-> "ok", interval |-> filtered[1]]] >>)
             \o FilterMap(day, data, n + 1, config)

\* What flat_map and filter_map yield for one element of `files`.
ItemsOf(day, data, config) ==
    IF data.status = "ok" THEN FilterMap(day, data.intervals, 1, config)
    ELSE ErrItems(day)

\* date_range yields its next date and buffered(4) starts get_data_for on it.
DateRangeNext ==
    /\ Len(x_files) < BUFFER_SIZE
    /\ x_current <= date_naive(x_config.end)
    /\ x_files' = Append(x_files, [day |-> x_current, data |-> [status |-> "pending"]])
    /\ x_current' = x_current + 1
    /\ UNCHANGED <<x_config, x_result, x_read,
                   collapseVars, intervalVars, fileVars, readVars, samples, daemonVars,
                   cleanVars, groupVars, timelineVars, analyzeVars>>

\* A get_data_for in progress returns Ok.
GetDataForOk ==
    /\ \E n \in 1 .. Len(x_files) :
          /\ x_files[n].data.status = "pending"
          /\ x_files' = [x_files EXCEPT ![n].data = get_data_for(x_files[n].day)]
          /\ x_read' = [x_read EXCEPT ![x_files[n].day] = get_data_for(x_files[n].day)]
    /\ UNCHANGED <<x_config, x_current, x_result,
                   collapseVars, intervalVars, fileVars, readVars, samples, daemonVars,
                   cleanVars, groupVars, timelineVars, analyzeVars>>

\* A get_data_for in progress returns Err (an I/O error other than NotFound).
GetDataForErr ==
    /\ \E n \in 1 .. Len(x_files) :
          /\ x_files[n].data.status = "pending"
          /\ x_files' = [x_files EXCEPT ![n].data = [status |-> "err"]]
          /\ x_read' = [x_read EXCEPT ![x_files[n].day] = [status |-> "err"]]
    /\ UNCHANGED <<x_config, x_current, x_result,
                   collapseVars, intervalVars, fileVars, readVars, samples, daemonVars,
                   cleanVars, groupVars, timelineVars, analyzeVars>>

\* buffered(4) yields the output of a future and the stream yields its items.
FlatMapNext ==
    /\ \E n \in ReadyPositions(x_files) :
          /\ x_result' = x_result \o ItemsOf(x_files[n].day, x_files[n].data, x_config)
          /\ x_files' = SubSeq(x_files, 1, n - 1) \o SubSeq(x_files, n + 1, Len(x_files))
    /\ UNCHANGED <<x_config, x_current, x_read,
                   collapseVars, intervalVars, fileVars, readVars, samples, daemonVars,
                   cleanVars, groupVars, timelineVars, analyzeVars>>

\* The stream has ended: date_range is exhausted and no future is left.
ExtractEnded ==
    /\ x_current > date_naive(x_config.end)
    /\ x_files = <<>>

(***************************************************************************)
(* SpecExtract: one extract_between over the archive, for every range.     *)
(***************************************************************************)
RangeInstants == 0 .. (Seconds((Max(MaxNow, QueueHorizon) \div Seconds(DAY_SECONDS) + 1) * DAY_SECONDS) - 1)

ExtractInit ==
    /\ CollapseIdle
    /\ IntervalIdle
    /\ FileIdle
    /\ ReadIdle
    /\ samples = <<>>
    /\ DaemonStopped
    /\ day_files = Archive
    /\ x_config \in [start : RangeInstants, end : RangeInstants]
    /\ x_current = date_naive(x_config.start)
    /\ x_files = <<>>
    /\ x_result = <<>>
    /\ x_read = [d \in Dates |-> [status |-> "none"]]
    /\ CleanIdle
    /\ GroupIdle
    /\ TimelineIdle
    /\ AnalyzeIdle

ExtractNext == DateRangeNext \/ GetDataForOk \/ GetDataForErr \/ FlatMapNext

SpecExtract == ExtractInit /\ [][ExtractNext]_vars

(***************************************************************************)
(* Claims about extract_between (SpecExtract).                             *)
(***************************************************************************)
RangeDates == (x_config.start \div Seconds(DAY_SECONDS)) .. (x_config.end \div Seconds(DAY_SECONDS))

ItemsOfDay(d) == SelectSeq(x_result, LAMBDA it : it.day = d)

\* C21: the items are yielded in ascending date order and, within a date,
\* in the order of the file, at every moment and whatever futures of
\* `files` have completed.
C21_YieldedInDateOrder ==
    \A i \in 1 .. Len(x_result) :
        \A j \in (i + 1) .. Len(x_result) :
            \/ x_result[i].day < x_result[j].day
            \/ (x_result[i].day = x_result[j].day /\ x_result[i].n < x_result[j].n)

\* Four reads are in progress, the first still pending while a later one
\* has returned, and items of an earlier date have been yielded.
C21_Witness ==
    /\ Len(x_files) = BUFFER_SIZE
    /\ x_files[1].data.status = "pending"
    /\ x_files[3].data.status = "ok"
    /\ x_files[3].data.intervals # <<>>
    /\ x_result # <<>>

\* C22: when the stream has ended, a date whose read failed has exactly one
\* item, an error, after every item of the earlier dates and before every
\* item of the later ones, and every later date that was read has its
\* clamped intervals in the stream.
C22_OneErrorItemThenLaterDays ==
    ExtractEnded =>
        \A d \in RangeDates :
            x_read[d].status = "err" =>
                /\ \E k \in 1 .. Len(x_result) :
                      /\ x_result[k] = [day |-> d, n |-> 1, item |-> [status |-> "err"]]
                      /\ \A i \in 1 .. Len(x_result) :
                            /\ i < k => x_result[i].day < d
                            /\ i > k => x_result[i].day > d
                /\ \A e \in RangeDates :
                      (e > d /\ x_read[e].status = "ok") =>
                          /\ Len(ItemsOfDay(e)) =
                                Cardinality({ n \in 1 .. Len(Stored(e)) :
                                    clamp(Stored(e)[n], x_config.start, x_config.end) # None })
                          /\ \A k \in 1 .. Len(ItemsOfDay(e)) :
                                /\ ItemsOfDay(e)[k].item.status = "ok"
                                /\ ItemsOfDay(e)[k].item.interval =
                                      clamp(Stored(e)[ItemsOfDay(e)[k].n],
                                            x_config.start, x_config.end)[1]

C22_Witness ==
    /\ ExtractEnded
    /\ \E d \in RangeDates, e \in RangeDates :
          /\ d < e
          /\ x_read[d].status = "err"
          /\ x_read[e].status = "ok"
          /\ Len(ItemsOfDay(d)) = 1
          /\ Len(ItemsOfDay(e)) = 2

\* An interval has a part inside [from, to): an instant, for an interval of
\* zero duration.
HasPartInside(i, from, to) ==
    IF i.duration = 0 THEN from <= i.start /\ i.start < to
    ELSE i.start < to /\ end(i) > from

\* C23: for a range [start, end), every interval yielded is the part inside
\* the range of the stored interval it comes from, with that interval's
\* key, and comes from an interval that has a part inside the range.
C23_YieldedPartsInsideRange ==
    x_config.start < x_config.end =>
        \A k \in 1 .. Len(x_result) :
            x_result[k].item.status = "ok" =>
                LET yielded == x_result[k].item.interval
                    stored == Stored(x_result[k].day)[x_result[k].n]
                IN  /\ yielded.start >= x_config.start
                    /\ end(yielded) <= x_config.end
                    /\ KeyOf(yielded) = KeyOf(stored)
                    /\ yielded.start = Max(stored.start, x_config.start)
                    /\ end(yielded) = Min(end(stored), x_config.end)
                    /\ HasPartInside(stored, x_config.start, x_config.end)

(***************************************************************************)
(* The wall clock of the grouping (cli/output/sliding_grouping.rs).  The   *)
(* grouping works on the hour, minute and second of a local time, so its   *)
(* instants keep the calendar of chrono: 60 s, 60 min, 24 h.  A local time *)
(* is the instant plus the offset of the zone, which is fixed.             *)
(***************************************************************************)
MinuteTicks == 60 * TicksPerSec
HourTicks == 60 * MinuteTicks
DayTicks == 24 * HourTicks

\* Timelike::hour, minute, second of a local time
hour(local) == (local % DayTicks) \div HourTicks
minute(local) == (local % HourTicks) \div MinuteTicks
second(local) == (local % MinuteTicks) \div TicksPerSec

\* Timelike::with_hour, with_minute, with_second: None when out of range
with_hour(local, h) ==
    IF h \in 0 .. 23 THEN Some(local - hour(local) * HourTicks + h * HourTicks) ELSE None

with_minute(local, m) ==
    IF m \in 0 .. 59 THEN Some(local - minute(local) * MinuteTicks + m * MinuteTicks) ELSE None

with_second(local, sec) ==
    IF sec \in 0 .. 59 THEN Some(local - second(local) * TicksPerSec + sec * TicksPerSec) ELSE None

with_nanosecond_Kept(local, nano) == Some(local)

\* Timelike::with_nanosecond, for nano = 0
with_nanosecond(local, nano) == Some(local - (local % TicksPerSec) + nano)

\* DateTime::date_naive of a local time: days since the epoch
LocalDate(local) == local \div DayTicks

\* DateTimeNow::beginning_of_day
beginning_of_day(local) == local - (local % DayTicks)

\* DateTime<Tz>::from(DateTime<Utc>) and to_utc
ToLocal(instant, zone) == instant + zone
to_utc(local, zone) == local - zone

\* SlidingInterval::new_opt: the limits of each TimeOption
HOURS_LIMIT == 24
MINUTES_LIMIT == 60
SECONDS_LIMIT == 60
DAYS_LIMIT == 7
WEEKS_LIMIT == 2

TimeOption == {"Weeks", "Days", "Hours", "Minutes", "Seconds"}

\* #[derive(PartialOrd, Ord)] on TimeOption: the order of the variants
TimeOptionRank(time) ==
    CASE time = "Weeks" -> 0 [] time = "Days" -> 1 [] time = "Hours" -> 2
      [] time = "Minutes" -> 3 [] time = "Seconds" -> 4

new_opt(duration, time) ==
    CASE time = "Hours" /\ duration < HOURS_LIMIT -> Some([duration |-> duration, time |-> time])
      [] time = "Minutes" /\ duration < MINUTES_LIMIT -> Some([duration |-> duration, time |-> time])
      [] time = "Seconds" /\ duration < SECONDS_LIMIT -> Some([duration |-> duration, time |-> time])
      [] time = "Days" /\ duration < DAYS_LIMIT -> Some([duration |-> duration, time |-> time])
      [] time = "Weeks" /\ duration < WEEKS_LIMIT -> Some([duration |-> duration, time |-> time])
      [] OTHER -> None

\* SlidingInterval::as_duration
as_duration(scale) ==
    CASE scale.time = "Hours" -> scale.duration * HourTicks
      [] scale.time = "Minutes" -> scale.duration * MinuteTicks
      [] scale.time = "Seconds" -> scale.duration * TicksPerSec
      [] scale.time = "Weeks" -> scale.duration * 7 * DayTicks
      [] scale.time = "Days" -> scale.duration * DayTicks

\* Duration::num_hours, num_minutes (of a duration that is not negative)
num_hours(duration) == duration \div HourTicks
num_minutes(duration) == duration \div MinuteTicks

\* clean_time_start on a local time, for Days, Hours, Minutes and Seconds
\* (a scale of Weeks is left out of the model).  Every unwrap is of a Some:
\* the fields set are in range.
clean_time_start(rough_start, scale) ==
    CASE scale.time = "Days" -> beginning_of_day(rough_start)
      [] scale.time = "Hours" ->
            LET lower_bound == with_nanosecond(
                                   with_second(
                                       with_minute(with_hour(rough_start, 0)[1], 0)[1],
                                       0)[1],
                                   0)[1]
                duration == rough_start - lower_bound
                remainder == num_hours(duration) % scale.duration
            IN  with_hour(lower_bound, hour(rough_start) - remainder)[1]
      [] scale.time = "Minutes" ->
            LET lower_bound == with_nanosecond(
                                   with_second(with_minute(rough_start, 0)[1], 0)[1],
                                   0)[1]
                duration == rough_start - lower_bound
                remainder == num_minutes(duration) % scale.duration
            IN  with_minute(lower_bound, minute(rough_start) - remainder)[1]
      [] scale.time = "Seconds" ->
            LET lower_bound == with_nanosecond(with_second(rough_start, 0)[1], 0)[1]
                duration == rough_start - lower_bound
                remainder == num_seconds(duration) % scale.duration
            IN  with_second(lower_bound, second(rough_start) - remainder)[1]

\* `%` with a divisor of zero panics.
CleanPanics(scale) == scale.time \in {"Hours", "Minutes", "Seconds"} /\ scale.duration = 0

(***************************************************************************)
(* SpecClean: clean_time_start applied to a local time, for every scale of *)
(* days, hours, minutes and seconds that new_opt accepts and that does not *)
(* panic.                                                                  *)
(***************************************************************************)
Zones == {0, 5 * HourTicks + 30 * MinuteTicks}

CleanScales ==
    { sc \in [duration : 0 .. 59, time : {"Days", "Hours", "Minutes", "Seconds"}] :
        new_opt(sc.duration, sc.time) # None /\ ~CleanPanics(sc) }

\* Instants of the fourth day of the epoch: at the start, the middle and
\* the end of the day, of the hour and of the minute.
CleanInstants ==
    { 3 * DayTicks + h * HourTicks + m * MinuteTicks + k :
        h \in {0, 7, 23}, m \in {0, 29, 59}, k \in {0, 1, 2, 59 * TicksPerSec + 1} }

CleanInit ==
    /\ CollapseIdle
    /\ IntervalIdle
    /\ FileIdle
    /\ ReadIdle
    /\ samples = <<>>
    /\ DaemonIdle
    /\ ExtractIdle
    /\ GroupIdle
    /\ TimelineIdle
    /\ AnalyzeIdle
    /\ cl_arg \in { Some([rough_start |-> t, scale |-> sc, zone |-> z]) :
                      t \in CleanInstants, sc \in CleanScales, z \in Zones }
    /\ cl_ret = None

CleanTimeStart ==
    /\ cl_ret = None
    /\ cl_ret' = Some(to_utc(clean_time_start(ToLocal(cl_arg[1].rough_start, cl_arg[1].zone),
                                              cl_arg[1].scale),
                             cl_arg[1].zone))
    /\ UNCHANGED <<cl_arg, collapseVars, intervalVars, fileVars, readVars, samples, daemonVars,
                   extractVars, groupVars, timelineVars, analyzeVars>>

CleanNext == CleanTimeStart

SpecClean == CleanInit /\ [][CleanNext]_vars

(***************************************************************************)
(* Claims about clean_time_start (SpecClean).                              *)
(***************************************************************************)
\* The ticks of the unit of a scale, and the unit's field of a local time.
UnitTicks(time) ==
    CASE time = "Hours" -> 60 * 60 * TicksPerSec
      [] time = "Minutes" -> 60 * TicksPerSec
      [] time = "Seconds" -> TicksPerSec

UnitField(local, time) ==
    CASE time = "Hours" -> (local % (24 * 60 * 60 * TicksPerSec)) \div (60 * 60 * TicksPerSec)
      [] time = "Minutes" -> (local % (60 * 60 * TicksPerSec)) \div (60 * TicksPerSec)
      [] time = "Seconds" -> (local % (60 * TicksPerSec)) \div TicksPerSec

OnBoundary(local, scale) ==
    /\ local % UnitTicks(scale.time) = 0
    /\ UnitField(local, scale.time) % scale.duration = 0

take_or_poll_ok_DropsBacklog(value, stream) ==
    IF stream # <<>> THEN [item |-> Some(Head(stream)), value |-> None, stream |-> Tail(stream)]
    ELSE [item |-> None, value |-> None, stream |-> stream]

\* take_or_poll_ok: the backlog when there is one, the next item of the
\* stream otherwise; None when the stream has ended.
take_or_poll_ok(value, stream) ==
    IF value # None THEN [item |-> value, value |-> None, stream |-> stream]
    ELSE IF stream # <<>>
    THEN [item |-> Some(Head(stream)), value |-> None, stream |-> Tail(stream)]
    ELSE [item |-> None, value |-> None, stream |-> stream]

\* sliding_group_next: the loop, from a state of its locals.
RECURSIVE sliding_group_next(_, _, _, _, _)
sliding_group_next(stream, backlog, start, finish, collected) ==
    LET taken == take_or_poll_ok(backlog, stream)
    IN  IF taken.item = None
        THEN IF collected = <<>>
             THEN [kind |-> "End", stream |-> taken.stream]
             ELSE [kind |-> "Values", backlog |-> None, data |-> Some(collected),
                   stream |-> taken.stream]
        ELSE LET usage_interval == taken.item[1]
                 halves == split_by(usage_interval, finish)
             IN  IF end(usage_interval) < start
                 THEN sliding_group_next(taken.stream, taken.value, start, finish, collected)
                 ELSE IF halves[1] = None
                 THEN [kind |-> "Values", backlog |-> halves[2], data |-> Some(collected),
                       stream |-> taken.stream]
                 ELSE IF halves[2] # None
                 THEN [kind |-> "Values", backlog |-> halves[2],
                       data |-> Some(Append(collected, halves[1][1])),
                       stream |-> taken.stream]
                 ELSE sliding_group_next(taken.stream, taken.value, start, finish,
                                         Append(collected, halves[1][1]))

\* The closure move_time: the next bucket starts where the previous one
\* ended and is cut at the local midnight it would cross.
move_time(previous_end, duration, zone) ==
    LET start == previous_end
        finish == start + duration
        local_start == ToLocal(start, zone)
        local_end == ToLocal(finish, zone)
    IN  IF LocalDate(local_start) # LocalDate(local_end)
        THEN <<start, to_utc(beginning_of_day(local_end), zone)>>
        ELSE <<start, finish>>

\* The buckets a stream of the model can need when the width is positive,
\* and the number at which the model stops a loop that never ends.
MaxBuckets == MaxGroupItems * (MaxGap + MaxSpan) + 3

\* values.next() is None: return Ok(vec![]).
GroupEmpty ==
    /\ g_pc = "call"
    /\ g_values = <<>>
    /\ g_pc' = "returned"
    /\ UNCHANGED <<g_scale, g_zone, g_input, g_values, g_backlog, g_start, g_end, g_collected,
                   collapseVars, intervalVars, fileVars, readVars, samples, daemonVars,
                   extractVars, cleanVars, timelineVars, analyzeVars>>

\* clean_time_start panics on the first interval.
GroupPanic ==
    /\ g_pc = "call"
    /\ g_values # <<>>
    /\ CleanPanics(g_scale[1])
    /\ g_values' = Tail(g_values)
    /\ g_pc' = "panicked"
    /\ UNCHANGED <<g_scale, g_zone, g_input, g_backlog, g_start, g_end, g_collected,
                   collapseVars, intervalVars, fileVars, readVars, samples, daemonVars,
                   extractVars, cleanVars, timelineVars, analyzeVars>>

\* The first interval gives the first bucket and becomes the backlog.
GroupFirst ==
    /\ g_pc = "call"
    /\ g_values # <<>>
    /\ ~CleanPanics(g_scale[1])
    /\ LET first == Head(g_values)
           rough_start == ToLocal(first.start, g_zone)
           collapse_start == to_utc(clean_time_start(rough_start, g_scale[1]), g_zone)
       IN  /\ g_start' = collapse_start
           /\ g_end' = collapse_start + as_duration(g_scale[1])
           /\ g_backlog' = Some(first)
    /\ g_values' = Tail(g_values)
    /\ g_pc' = "loop"
    /\ UNCHANGED <<g_scale, g_zone, g_input, g_collected,
                   collapseVars, intervalVars, fileVars, readVars, samples, daemonVars,
                   extractVars, cleanVars, timelineVars, analyzeVars>>

\* sliding_group_next returns Values: the bucket is pushed and move_time
\* gives the next one.
GroupBucket ==
    /\ g_pc = "loop"
    /\ Len(g_collected) < MaxBuckets
    /\ LET next == sliding_group_next(g_values, g_backlog, g_start, g_end, <<>>)
           moved == move_time(g_end, as_duration(g_scale[1]), g_zone)
       IN  /\ next.kind = "Values"
           /\ g_backlog' = next.backlog
           /\ g_values' = next.stream
           /\ g_collected' = Append(g_collected,
                                    [start |-> g_start, end |-> g_end, data |-> next.data])
           /\ g_start' = moved[1]
           /\ g_end' = moved[2]
    /\ UNCHANGED <<g_scale, g_zone, g_input, g_pc,
                   collapseVars, intervalVars, fileVars, readVars, samples, daemonVars,
                   extractVars, cleanVars, timelineVars, analyzeVars>>

\* sliding_group_next returns End: return Ok(collected).
GroupEnd ==
    /\ g_pc = "loop"
    /\ Len(g_collected) < MaxBuckets
    /\ LET next == sliding_group_next(g_values, g_backlog, g_start, g_end, <<>>)
       IN  /\ next.kind = "End"
           /\ g_values' = next.stream
    /\ g_backlog' = None
    /\ g_pc' = "returned"
    /\ UNCHANGED <<g_scale, g_zone, g_input, g_start, g_end, g_collected,
                   collapseVars, intervalVars, fileVars, readVars, samples, daemonVars,
                   extractVars, cleanVars, timelineVars, analyzeVars>>

(***************************************************************************)
(* SpecGroup: one sliding_interval_grouping over a stream in chronological *)
(* order without overlaps, for scales of days, hours, minutes and seconds  *)
(* that new_opt accepts.  The stream starts three units before a local     *)
(* midnight; its gaps and intervals are counted in half units.             *)
(***************************************************************************)
GroupScales ==
    { sc \in [duration : {0, 1, 2, 7}, time : {"Days", "Hours", "Minutes", "Seconds"}] :
        new_opt(sc.duration, sc.time) # None }

HalfUnit(scale) == as_duration([duration |-> 1, time |-> scale.time]) \div 2

Layouts ==
    UNION { [1 .. n -> [gap : 0 .. MaxGap, span : 0 .. MaxSpan]] : n \in 0 .. MaxGroupItems }

\* The intervals of a layout from an instant on, of alternating windows.
RECURSIVE Laid(_, _, _, _)
Laid(layout, n, at, half) ==
    IF n > Len(layout) THEN <<>>
    ELSE LET start == at + layout[n].gap * half
             duration == layout[n].span * half
         IN  << UsageIntervalEntity(IF n % 2 = 1 THEN <<"W">> ELSE <<"V">>,
                                    IF n % 2 = 1 THEN <<"A">> ELSE <<"B">>,
                                    start, duration, FALSE) >>
             \o Laid(layout, n + 1, start + duration, half)

StreamOf(layout, scale, zone) ==
    Laid(layout, 1, to_utc(4 * DayTicks - 6 * HalfUnit(scale), zone), HalfUnit(scale))

GroupInit ==
    /\ CollapseIdle
    /\ IntervalIdle
    /\ FileIdle
    /\ ReadIdle
    /\ samples = <<>>
    /\ DaemonIdle
    /\ ExtractIdle
    /\ CleanIdle
    /\ TimelineIdle
    /\ AnalyzeIdle
    /\ g_scale \in { Some(sc) : sc \in GroupScales }
    /\ g_zone \in Zones
    /\ g_input \in { StreamOf(layout, g_scale[1], g_zone) : layout \in Layouts }
    /\ g_values = g_input
    /\ g_backlog = None
    /\ g_start = 0
    /\ g_end = 0
    /\ g_collected = <<>>
    /\ g_pc = "call"

GroupNext == GroupEmpty \/ GroupPanic \/ GroupFirst \/ GroupBucket \/ GroupEnd

SpecGroup == GroupInit /\ [][GroupNext]_vars

\* The function runs on: a step that is possible is taken.
SpecGroupLive == SpecGroup /\ WF_vars(GroupNext)

(***************************************************************************)
(* Claims about sliding_interval_grouping (SpecGroup, SpecGroupLive).      *)
(***************************************************************************)
\* The local date an instant falls on.
LocalDateOf(instant) == (instant + g_zone) \div (24 * 60 * 60 * TicksPerSec)

\* C24: every bucket collected, the first included, lies within one local
\* date: its start and the last tick before its end are on the same date.
C24_BucketsWithinOneDate ==
    \A n \in 1 .. Len(g_collected) :
        g_collected[n].end > g_collected[n].start =>
            LocalDateOf(g_collected[n].start) = LocalDateOf(g_collected[n].end - 1)

\* C25: sliding_interval_grouping returns, for every stream and every scale
\* in the model.
C25_GroupingReturns == <>(g_pc = "returned")

RECURSIVE SumDurations(_)
SumDurations(intervals) ==
    IF intervals = <<>> THEN 0
    ELSE Head(intervals).duration + SumDurations(Tail(intervals))

RECURSIVE SumBuckets(_)
SumBuckets(buckets) ==
    IF buckets = <<>> THEN 0
    ELSE SumDurations(Head(buckets).data[1]) + SumBuckets(Tail(buckets))

ChronologicalNoOverlap(stream) ==
    \A n \in 1 .. (Len(stream) - 1) : stream[n].start + stream[n].duration <= stream[n + 1].start

\* C26: for a stream in chronological order without overlaps and a positive
\* width, the durations handed to the analyzer over all buckets add up to
\* the durations of the stream.
C26_GroupingKeepsTime ==
    (g_pc = "returned" /\ g_scale[1].duration > 0 /\ ChronologicalNoOverlap(g_input)) =>
        SumBuckets(g_collected) = SumDurations(g_input)

\* Two intervals, the first longer than the width, over three buckets or
\* more, one of them cut at midnight.
C26_Witness ==
    /\ g_pc = "returned"
    /\ g_scale[1] = [duration |-> 1, time |-> "Minutes"]
    /\ Len(g_input) = 2
    /\ g_input[1].duration > 60 * TicksPerSec
    /\ g_input[2].duration > 0
    /\ Len(g_collected) >= 3
    /\ \E n \in 1 .. Len(g_collected) : Len(g_collected[n].data[1]) = 2

(***************************************************************************)
(* process_timeline_command (cli/timeline.rs): parse_values, then the      *)
(* record files of the dates of the range are opened one after another.    *)
(* Dates are those of the record directory (date_naive); the zone is UTC.  *)
(***************************************************************************)
\* The first instant of a date.
StartOfDate(date) == date * Seconds(DAY_SECONDS)

\* utils::time::next_day_start
next_day_start(instant) == StartOfDate(date_naive(instant + Seconds(DAY_SECONDS)))

\* parse_values: new_opt is None, return Err(..) before anything is opened.
PcAfterNewOptNone == "err"

\* parse_values: the interval is checked, the dates are taken as given, or
\* widened to whole days.
ParseValues ==
    /\ t_pc = "parse_values"
    /\ LET command == t_command[1]
           treat_as_days == command.treat_as_days
                               \/ TimeOptionRank(command.option) <= TimeOptionRank("Days")
           interval == new_opt(command.duration, command.option)
       IN  IF interval = None
           THEN /\ t_pc' = PcAfterNewOptNone
                /\ t_range' = None
           ELSE /\ t_pc' = "extract"
                /\ t_range' = IF treat_as_days
                              THEN Some([start |-> StartOfDate(date_naive(command.start)),
                                         end |-> next_day_start(command.end)])
                              ELSE Some([start |-> command.start, end |-> command.end])
    /\ UNCHANGED <<t_command, t_opened,
                   collapseVars, intervalVars, fileVars, readVars, samples, daemonVars,
                   extractVars, cleanVars, groupVars, analyzeVars>>

\* The dates date_range yields that get_data_for has not opened yet.
DatesToOpen ==
    IF t_range = None THEN {}
    ELSE { d \in date_naive(t_range[1].start) .. date_naive(t_range[1].end) : d \notin t_opened }

\* extract_between: get_data_for opens the file of the next date.
TimelineOpen ==
    /\ t_pc = "extract"
    /\ DatesToOpen # {}
    /\ t_opened' = t_opened \cup { CHOOSE d \in DatesToOpen : \A e \in DatesToOpen : d <= e }
    /\ UNCHANGED <<t_command, t_pc, t_range,
                   collapseVars, intervalVars, fileVars, readVars, samples, daemonVars,
                   extractVars, cleanVars, groupVars, analyzeVars>>

\* The stream has ended, the buckets are printed and Ok(()) is returned.
TimelineOk ==
    /\ t_pc = "extract"
    /\ DatesToOpen = {}
    /\ t_pc' = "ok"
    /\ UNCHANGED <<t_command, t_opened, t_range,
                   collapseVars, intervalVars, fileVars, readVars, samples, daemonVars,
                   extractVars, cleanVars, groupVars, analyzeVars>>

(***************************************************************************)
(* SpecTimeline: one timeline command, for widths inside and outside the   *)
(* limits and start and end dates in either order.                         *)
(***************************************************************************)
TimelineCommands ==
    [duration : {0, 1, 2, 7, 24, 60}, option : TimeOption,
     start : RangeInstants, end : RangeInstants, treat_as_days : BOOLEAN]

TimelineInit ==
    /\ CollapseIdle
    /\ IntervalIdle
    /\ FileIdle
    /\ ReadIdle
    /\ samples = <<>>
    /\ DaemonStopped
    /\ day_files = Archive
    /\ ExtractIdle
    /\ CleanIdle
    /\ GroupIdle
    /\ AnalyzeIdle
    /\ t_command \in { Some(command) : command \in TimelineCommands }
    /\ t_pc = "parse_values"
    /\ t_opened = {}
    /\ t_range = None

TimelineNext == ParseValues \/ TimelineOpen \/ TimelineOk

SpecTimeline == TimelineInit /\ [][TimelineNext]_vars

(***************************************************************************)
(* Claims about the timeline command (SpecTimeline).                       *)
(***************************************************************************)
WidthOutsideLimits ==
    LET command == t_command[1]
    IN  \/ (command.option \in {"Seconds", "Minutes"} /\ command.duration >= 60)
        \/ (command.option = "Hours" /\ command.duration >= 24)
        \/ (command.option = "Days" /\ command.duration >= 7)
        \/ (command.option = "Weeks" /\ command.duration >= 2)

EndBeforeStart == t_command[1].end < t_command[1].start

\* C28: a command whose width is outside the limits, or whose end is
\* earlier than its start, ends with an error and opens no record file.
C28_InvalidQueryFailsBeforeIo ==
    (t_command # None /\ (WidthOutsideLimits \/ EndBeforeStart)) =>
        /\ t_opened = {}
        /\ t_pc \in {"parse_values", "err"}

(***************************************************************************)
(* cli::output::analysis: the intervals of one bucket are summed per       *)
(* process, or per (process, window), and the entries at or under the      *)
(* threshold are left out.                                                 *)
(***************************************************************************)
\* Percentage(f64): the model counts percentages in parts of a percent, so
\* that there are values between two whole percentages.
PercentScale == 2

\* utils::percentage::Percentage::new_opt
Percentage_new_opt(value) == IF value < 0 THEN None ELSE Some(value)

I32_MAX == 2147483647

\* `*min_percentage as i32`: a float is cast to its integer part, and to
\* i32::MAX when it is larger.
as_i32(value) == Min(value \div PercentScale, I32_MAX)

\* Path::file_name: the last component of the path, None when there is none
\* or when it is "..".
RECURSIVE TrimSeparators(_)
TrimSeparators(value) ==
    IF value # <<>> /\ value[Len(value)] = "/"
    THEN TrimSeparators(SubSeq(value, 1, Len(value) - 1))
    ELSE value

file_name(value) ==
    LET trimmed == TrimSeparators(value)
        cuts    == { n \in 1 .. Len(trimmed) : trimmed[n] = "/" }
        from    == IF cuts = {} THEN 1
                   ELSE 1 + CHOOSE n \in cuts : \A m \in cuts : m <= n
        last    == SubSeq(trimmed, from, Len(trimmed))
    IN  IF trimmed = <<>> \/ last = <<".", ".">> THEN None ELSE Some(last)

\* cli::timeline::clean_process_name
clean_process_name(value) ==
    IF file_name(value) = None THEN value ELSE file_name(value)[1]

InactiveName == <<"I", "n", "a", "c", "t", "i", "v", "e">>

\* HashMap::insert
MapInsert(map, key, value) ==
    [k \in DOMAIN map \cup {key} |-> IF k = key THEN value ELSE map[k]]

\* The for loop of analyze_processes: the map after the intervals.
RECURSIVE ProcessMap(_, _, _)
ProcessMap(intervals, include_afk, map) ==
    IF intervals = <<>> THEN map
    ELSE LET v   == Head(intervals)
             key == clean_process_name(v.process_name)
         IN  IF v.afk /\ ~include_afk
             THEN ProcessMap(Tail(intervals), include_afk, map)
             ELSE ProcessMap(Tail(intervals), include_afk,
                    IF key \in DOMAIN map
                    THEN [map EXCEPT ![key].duration = @ + v.duration]
                    ELSE MapInsert(map, key,
                           [process_name |-> v.process_name,
                            duration |-> v.duration]))

\* The for loop of analyze_windows: the map after the intervals.
RECURSIVE WindowMap(_, _, _)
WindowMap(intervals, include_afk, map) ==
    IF intervals = <<>> THEN map
    ELSE LET v   == Head(intervals)
             key == <<clean_process_name(v.process_name), v.window_name>>
         IN  IF v.afk /\ ~include_afk
             THEN WindowMap(Tail(intervals), include_afk, map)
             ELSE WindowMap(Tail(intervals), include_afk,
                    IF key \in DOMAIN map
                    THEN [map EXCEPT ![key].duration = @ + v.duration]
                    ELSE MapInsert(map, key,
                           [process_name |-> v.process_name,
                            window_name |-> v.window_name,
                            duration |-> v.duration]))

\* The for loop: the time of the intervals left to the Inactive entry.
RECURSIVE InactiveDuration(_, _)
InactiveDuration(intervals, include_afk) ==
    IF intervals = <<>> THEN 0
    ELSE (IF Head(intervals).afk /\ ~include_afk
          THEN Head(intervals).duration ELSE 0)
         + InactiveDuration(Tail(intervals), include_afk)

\* The for loop: interval_sum.
RECURSIVE IntervalSum(_)
IntervalSum(intervals) ==
    IF intervals = <<>> THEN 0
    ELSE Head(intervals).duration + IntervalSum(Tail(intervals))

\* The maps as they are when they are filtered: with the Inactive entry
\* when it has time in it.
ProcessEntries(intervals, include_afk) ==
    LET map      == ProcessMap(intervals, include_afk, <<>>)
        inactive == [process_name |-> InactiveName,
                     duration |-> InactiveDuration(intervals, include_afk)]
    IN  IF inactive.duration # 0
        THEN MapInsert(map, InactiveName, inactive) ELSE map

WindowEntries(intervals, include_afk) ==
    LET map      == WindowMap(intervals, include_afk, <<>>)
        inactive == [process_name |-> InactiveName, window_name |-> <<>>,
                     duration |-> InactiveDuration(intervals, include_afk)]
    IN  IF inactive.duration # 0
        THEN MapInsert(map, <<InactiveName, <<>>>>, inactive) ELSE map

\* Duration * i32 / 100 is computed in nanoseconds; a tick is a whole number
\* of hundreds of nanoseconds, so the quotient is exact in hundredths of a
\* tick.
Hundredths(duration) == duration * 100

threshold(interval_sum, min_percentage) ==
    (Hundredths(interval_sum) * as_i32(min_percentage)) \div 100

\* into_iter: the entries of a HashMap in one of its orders.
IterationOrders(map) ==
    { order \in [1 .. Cardinality(DOMAIN map) -> DOMAIN map] :
        \A n, m \in 1 .. Cardinality(DOMAIN map) :
            order[n] = order[m] => n = m }

\* filter(|v| v.duration > threshold)
RECURSIVE FilterUsages(_, _)
FilterUsages(usages, floor) ==
    IF usages = <<>> THEN <<>>
    ELSE (IF Hundredths(Head(usages).duration) > floor
          THEN <<Head(usages)>> ELSE <<>>)
         \o FilterUsages(Tail(usages), floor)

\* sort_by(|a, b| a.duration.cmp(&b.duration)): a stable sort.
RECURSIVE sort_by(_)
sort_by(usages) ==
    IF usages = <<>> THEN <<>>
    ELSE LET last   == usages[Len(usages)]
             sorted == sort_by(SubSeq(usages, 1, Len(usages) - 1))
             before == { n \in 1 .. Len(sorted) :
                            sorted[n].duration <= last.duration }
             at     == IF before = {} THEN 0
                       ELSE CHOOSE n \in before : \A m \in before : m <= n
         IN  SubSeq(sorted, 1, at) \o <<last>>
                 \o SubSeq(sorted, at + 1, Len(sorted))

reverse(usages) ==
    [n \in 1 .. Len(usages) |-> usages[Len(usages) + 1 - n]]

\* What is returned for the entries taken in one order.
Usages(entries, order, interval_sum, min_percentage) ==
    reverse(sort_by(FilterUsages([n \in DOMAIN order |-> entries[order[n]]],
                                 threshold(interval_sum, min_percentage))))

AnalyzeProcesses ==
    /\ a_arg # None
    /\ a_ret = None
    /\ LET arg     == a_arg[1]
           entries == ProcessEntries(arg.intervals, arg.include_afk)
           sum     == IntervalSum(arg.intervals)
       IN  \E order \in IterationOrders(entries) :
               a_ret' = Some([by |-> "process",
                              usages |-> Usages(entries, order, sum,
                                                arg.min_percentage),
                              interval_sum |-> sum])
    /\ UNCHANGED <<a_arg,
                   collapseVars, intervalVars, fileVars, readVars, samples, daemonVars,
                   extractVars, cleanVars, groupVars, timelineVars>>

AnalyzeWindows ==
    /\ a_arg # None
    /\ a_ret = None
    /\ LET arg     == a_arg[1]
           entries == WindowEntries(arg.intervals, arg.include_afk)
           sum     == IntervalSum(arg.intervals)
       IN  \E order \in IterationOrders(entries) :
               a_ret' = Some([by |-> "window",
                              usages |-> Usages(entries, order, sum,
                                                arg.min_percentage),
                              interval_sum |-> sum])
    /\ UNCHANGED <<a_arg,
                   collapseVars, intervalVars, fileVars, readVars, samples, daemonVars,
                   extractVars, cleanVars, groupVars, timelineVars>>

(***************************************************************************)
(* SpecAnalyze: one bucket of at most MaxUsages intervals, analysed once   *)
(* by process or by window, for whole and fractional percentages.          *)
(***************************************************************************)
MaxUsages == 2

\* Bare names and a path; a program may be called Inactive and a window may
\* have no title.
AnalyzeProcessNames == { <<"A">>, <<"/", "A">>, <<"B">>, InactiveName }

AnalyzeWindowNames == WindowNames \cup {<<>>}

AnalyzeIntervals ==
    [window_name : AnalyzeWindowNames, process_name : AnalyzeProcessNames,
     afk : BOOLEAN, duration : 0 .. 3]

MinPercentages ==
    { whole * PercentScale + part :
        whole \in {0, 10, 33, 50, 100}, part \in 0 .. PercentScale - 1 }

AnalyzeArgs ==
    [intervals : UNION { [1 .. n -> AnalyzeIntervals] : n \in 0 .. MaxUsages },
     min_percentage : { value \in MinPercentages :
                            Percentage_new_opt(value) # None },
     include_afk : BOOLEAN]

AnalyzeInit ==
    /\ CollapseIdle
    /\ IntervalIdle
    /\ FileIdle
    /\ ReadIdle
    /\ samples = <<>>
    /\ DaemonIdle
    /\ ExtractIdle
    /\ CleanIdle
    /\ GroupIdle
    /\ TimelineIdle
    /\ a_arg \in { Some(arg) : arg \in AnalyzeArgs }
    /\ a_ret = None

AnalyzeNext == AnalyzeProcesses \/ AnalyzeWindows

SpecAnalyze == AnalyzeInit /\ [][AnalyzeNext]_vars

(***************************************************************************)
(* Claims about the analysis (SpecAnalyze).                                *)
(***************************************************************************)
\* The entries the analysis has summed, whatever the threshold.
AnalyzedEntries ==
    IF a_ret[1].by = "process"
    THEN ProcessEntries(a_arg[1].intervals, a_arg[1].include_afk)
    ELSE WindowEntries(a_arg[1].intervals, a_arg[1].include_afk)

\* duration <= min_percentage * interval_sum / 100, in whole numbers.
AtOrBelowFloor(entry) ==
    entry.duration * 100 * PercentScale
        <= a_arg[1].min_percentage * a_ret[1].interval_sum

\* C29: for whole and for fractional percentages, an entry is left out of
\* what analyze_processes and analyze_windows return exactly when its
\* duration is at or below min_percentage * interval_sum / 100.
C29_DroppedExactlyAtOrBelowFloor ==
    a_ret # None =>
        \A key \in DOMAIN AnalyzedEntries :
            AtOrBelowFloor(AnalyzedEntries[key])
                <=> ~(\E n \in 1 .. Len(a_ret[1].usages) :
                          a_ret[1].usages[n] = AnalyzedEntries[key])

(***************************************************************************)
(* SpecSerde: one interval is written as a record line and the line is     *)
(* parsed back; a line of a version that had no afk field is parsed too.   *)
(***************************************************************************)
SerdeKeys == Keys \cup FileKeys

SerdeInputs ==
    { UsageIntervalEntity(k.window_name, k.process_name, s, d, k.afk) :
        k \in SerdeKeys, s \in 0 .. MaxStart, d \in -1 .. MaxDuration }

\* The record line of a version whose UsageIntervalEntity had no afk field.
LineWithoutAfk(i) ==
    <<"{">> \o i.window_name \o <<"|">> \o i.process_name
        \o <<"|">> \o IntBytes(ts_seconds(i.start))
        \o <<"|">> \o IntBytes(num_seconds(i.duration)) \o <<"}">>

SerdeInit ==
    /\ iv \in SerdeInputs
    /\ iv_op = [op |-> "none"]
    /\ CollapseIdle
    /\ FileIdle
    /\ ReadIdle
    /\ samples = <<>>
    /\ DaemonIdle
    /\ CliIdle

ToWriter ==
    /\ iv_op.op = "none"
    /\ iv_op' = [op |-> "to_writer", line |-> to_writer(iv)]
    /\ UNCHANGED <<iv, collapseVars, fileVars, readVars, samples, daemonVars, cliVars>>

OldLine ==
    /\ iv_op.op = "none"
    /\ iv_op' = [op |-> "old_line", line |-> LineWithoutAfk(iv)]
    /\ UNCHANGED <<iv, collapseVars, fileVars, readVars, samples, daemonVars, cliVars>>

FromStr ==
    /\ iv_op.op \in {"to_writer", "old_line"}
    /\ iv_op' = [op |-> "from_str", of |-> iv_op.op, line |-> iv_op.line,
                 result |-> from_str(iv_op.line)]
    /\ UNCHANGED <<iv, collapseVars, fileVars, readVars, samples, daemonVars, cliVars>>

SerdeNext == ToWriter \/ OldLine \/ FromStr

SpecSerde == SerdeInit /\ [][SerdeNext]_vars

(***************************************************************************)
(* Claims about the record line (SpecSerde).                               *)
(***************************************************************************)
\* whole is value reduced to whole seconds: towards zero for a duration,
\* and a start of the model is never negative.
ReducedToSeconds(value, whole) ==
    /\ whole % TicksPerSec = 0
    /\ IF value >= 0
       THEN whole <= value /\ value < whole + TicksPerSec
       ELSE value <= whole /\ whole - TicksPerSec < value

\* C31: a written interval parses back with its window_name, process_name
\* and afk, and with start and duration reduced to whole seconds (the same
\* interval when both are whole seconds); a line without an afk field parses
\* with afk = false.
C31_LineRoundTrip ==
    iv_op.op = "from_str" =>
        /\ iv_op.result # None
        /\ iv_op.result[1].window_name = iv.window_name
        /\ iv_op.result[1].process_name = iv.process_name
        /\ ReducedToSeconds(iv.start, iv_op.result[1].start)
        /\ ReducedToSeconds(iv.duration, iv_op.result[1].duration)
        /\ iv_op.of = "to_writer" => iv_op.result[1].afk = iv.afk
        /\ iv_op.of = "old_line" => iv_op.result[1].afk = FALSE
        /\ (/\ iv_op.of = "to_writer"
            /\ iv.start % TicksPerSec = 0
            /\ iv.duration % TicksPerSec = 0) => iv_op.result[1] = iv

C31_Witness ==
    /\ iv_op.op = "from_str"
    /\ iv_op.of = "to_writer"
    /\ iv.window_name = LongWindow
    /\ iv.start % TicksPerSec = 1
    /\ iv.duration % TicksPerSec = 1
    /\ iv_op.result # None
    /\ iv_op.result[1].start < iv.start
    /\ iv_op.result[1].duration < iv.duration

(***************************************************************************)
(* Claims about the handle LocalSaver keeps (SpecDaemon).                  *)
(***************************************************************************)
\* C32: the handle a sample was appended through is kept in current_handle
\* when the append has succeeded, so that the next sample of the same UTC
\* day is appended through it without create_or_append_record.
C32_HandleKeptAfterAppend ==
    [][ stats'.ok = stats.ok + 1 =>
          /\ current_handle' # None
          /\ current_handle'[1].date = active_file[1].date ]_vars

(***************************************************************************)
(* Claims about what an append leaves in the file (SpecFile, SpecSeq).     *)
(***************************************************************************)
\* The lines of a file, as a reader of lines sees them.
LinesOf(bytes) == SplitLines(bytes, <<>>)

\* What collapse_records returns for the file an append found and the
\* record it was called with.
CollapsedBy(h) ==
    LET line == PhysicalLastLine(pre_file[h])
    IN  collapse_records(IF line = <<>> THEN None ELSE from_str(line),
                         usage_record[h])

\* C33: when an append has returned Ok, the file is as the append found it
\* up to the start of its last line, and it has as many lines as it had,
\* less the last line when there was one, plus one for each interval
\* collapse_records returned.
C33_AppendRewritesLastLineOnly ==
    \A h \in Handles :
        (pc[h] = "idle" /\ result[h] = "ok") =>
            LET start == LastLineStart(pre_file[h])
            IN  /\ SubSeq(file, 1, start) = SubSeq(pre_file[h], 1, start)
                /\ Len(LinesOf(file))
                     = Len(LinesOf(pre_file[h]))
                       - (IF pre_file[h] = <<>> THEN 0 ELSE 1)
                       + Len(CollapsedBy(h))

(***************************************************************************)
(* SpecCrash: appends to a day file that is fresh or holds one interval of *)
(* nine seconds; the process may die at any step of an append and the file *)
(* is appended to again afterwards.  No I/O error is injected.             *)
(***************************************************************************)
LongCarried ==
    UsageIntervalEntity(<<"W">>, <<"A">>, 0, Seconds(9), FALSE)

CrashFiles == { <<>>, SerializeAll(<<LongCarried>>) }

CrashInit ==
    /\ file \in CrashFiles
    /\ clock = IF file = <<>> THEN 0 ELSE end(LongCarried)
    /\ appends = 0
    /\ faults = 0
    /\ committed = {file}
    /\ pc = [p \in Procs |-> "idle"]
    /\ lock = [p \in Procs |-> "none"]
    /\ cursor = [p \in Procs |-> 0]
    /\ usage_record = [h \in Handles |-> <<>>]
    /\ last_line = [h \in Handles |-> <<>>]
    /\ buffer = [h \in Handles |-> <<>>]
    /\ written = [h \in Handles |-> 0]
    /\ result = [h \in Handles |-> "none"]
    /\ fault = [h \in Handles |-> "none"]
    /\ pre_file = [h \in Handles |-> <<>>]
    /\ rd_bytes = [r \in Readers |-> <<>>]
    /\ CollapseIdle
    /\ IntervalIdle
    /\ ReadIdle
    /\ samples = <<>>
    /\ DaemonIdle
    /\ CliIdle

\* The collector polls once a second; two samples may fall on one tick.
CrashMoments == {clock, clock + TicksPerSec} \cap (0 .. (end(LongCarried) + MaxFileMoment))

CrashNext ==
    \/ AppendCall("h1", CrashMoments)
    \/ AppendStep("h1")
    \/ Crash("h1")

SpecCrash == CrashInit /\ [][CrashNext]_vars

(***************************************************************************)
(* Claims about a crash during an append (SpecCrash).                      *)
(***************************************************************************)
ReadAll(bytes) == get_all_inner(extract(bytes)).intervals

\* Every interval of before is in after at its place, the last of them
\* with a duration that may have grown.
KeptBy(before, after) ==
    /\ Len(after) >= Len(before)
    /\ \A n \in 1 .. Len(before) :
          IF n < Len(before) THEN after[n] = before[n]
          ELSE /\ KeyOf(after[n]) = KeyOf(before[n])
               /\ after[n].start = before[n].start
               /\ after[n].duration >= before[n].duration

\* C34: when the process has died during an append, a read of the file
\* returns every interval that a read returned before the append began, the
\* last of them with at least the duration it had; and no append made
\* afterwards fails.
C34_CrashKeepsIntervals ==
    /\ (pc["h1"] = "idle" /\ result["h1"] = "crashed") =>
            KeptBy(ReadAll(pre_file["h1"]), ReadAll(file))
    /\ result["h1"] # "err"

(***************************************************************************)
(* SpecSubSecond: a sequence of samples stamped at any tick, whole second  *)
(* or not, in an order that does not decrease, appended one per append     *)
(* call to a fresh day file.                                               *)
(***************************************************************************)
TickSequences ==
    LET all == UNION { [1 .. n -> { UsageRecordEntity(k.window_name, k.process_name, m, k.afk) :
                                      k \in FileKeys, m \in 0 .. MaxFileMoment }] :
                       n \in 0 .. MaxAppends }
    IN  { q \in all : \A n \in 1 .. (Len(q) - 1) : q[n].moment <= q[n + 1].moment }

SubSecondInit ==
    /\ FileInit
    /\ CollapseIdle
    /\ IntervalIdle
    /\ ReadIdle
    /\ DaemonIdle
    /\ CliIdle
    /\ samples \in TickSequences

SubSecondNext == AppendSample("h1") \/ AppendStep("h1")

SpecSubSecond == SubSecondInit /\ [][SubSecondNext]_vars

(***************************************************************************)
(* Claims about the file a sequence of appends leaves (SpecSubSecond).     *)
(***************************************************************************)
\* C35: whenever the appends made so far have returned, the intervals read
\* back from the file are in order and do not overlap: each starts at or
\* after the end of the one on the line before it.
C35_FileChronological ==
    pc["h1"] = "idle" =>
        \A n \in 1 .. (Len(ReadAll(file)) - 1) :
            ReadAll(file)[n + 1].start >= end(ReadAll(file)[n])

C35_Witness ==
    /\ pc["h1"] = "idle"
    /\ appends = 3
    /\ \E n \in 1 .. 3 : samples[n].moment % TicksPerSec = 1
    /\ Len(ReadAll(file)) = 3
    /\ ReadAll(file)[2].start = end(ReadAll(file)[1])
    /\ ReadAll(file)[3].start > end(ReadAll(file)[2])

\* The samples appended so far.
Appended == SubSeq(samples, 1, appends)

\* Samples of one key, each less than MAX_MERGE_DURATION after the one
\* before it.
OneKeySmallGaps(records) ==
    /\ records # <<>>
    /\ \A n \in 1 .. Len(records) : KeyOf(records[n]) = KeyOf(records[1])
    /\ \A n \in 1 .. (Len(records) - 1) :
          records[n + 1].moment - records[n].moment < MAX_MERGE_DURATION

\* C37: samples of one key that are less than 2 s apart, at whole seconds or
\* not, appended one per append call to a fresh file, leave one interval in
\* the file, as collapse_records gives one interval for them in one batch.
C37_SubSecondAppendsStayOneInterval ==
    (pc["h1"] = "idle" /\ OneKeySmallGaps(Appended)) =>
        /\ Len(collapse_records(None, Appended)) = 1
        /\ Len(ReadAll(file)) = 1

(***************************************************************************)
(* Claims about what collapse_records does to its list (SpecCollapse).     *)
(***************************************************************************)
\* C36: a record leaves every interval already in the list with its
\* window_name, process_name, afk and start, changes no duration but that
\* of the last interval, and makes that one no smaller.
C36_OnlyLastDurationGrows ==
    [][ /\ Len(c_intervals') >= Len(c_intervals)
        /\ \A n \in 1 .. Len(c_intervals) :
              /\ KeyOf(c_intervals'[n]) = KeyOf(c_intervals[n])
              /\ c_intervals'[n].start = c_intervals[n].start
              /\ n < Len(c_intervals) =>
                    c_intervals'[n].duration = c_intervals[n].duration
              /\ c_intervals'[n].duration >= c_intervals[n].duration ]_vars

(***************************************************************************)
(* Claims about the intervals of a bucket (SpecGroup).                     *)
(***************************************************************************)
\* The time an interval spends between two instants.
Overlap(i, from, to) == Max(0, Min(end(i), to) - Max(i.start, from))

RECURSIVE SumOverlaps(_, _, _)
SumOverlaps(stream, from, to) ==
    IF stream = <<>> THEN 0
    ELSE Overlap(Head(stream), from, to) + SumOverlaps(Tail(stream), from, to)

\* C38: for a stream in chronological order without overlaps, every interval
\* handed to the analyzer for a bucket lies between the bucket's start and
\* its end, the intervals of a bucket add up to no more than its length and
\* to exactly the time the stream spends inside it, and an interval left in
\* the backlog starts at or after the end of the bucket collected last.
C38_BucketHoldsItsPartOnly ==
    ChronologicalNoOverlap(g_input) =>
        /\ \A n \in 1 .. Len(g_collected) :
              LET bucket == g_collected[n]
                  data == bucket.data[1]
              IN  /\ \A m \in 1 .. Len(data) :
                        /\ data[m].start >= bucket.start
                        /\ end(data[m]) <= bucket.end
                  /\ SumDurations(data) <= bucket.end - bucket.start
                  /\ SumDurations(data) = SumOverlaps(g_input, bucket.start, bucket.end)
        /\ (g_collected # <<>> /\ g_backlog # None) =>
              g_backlog[1].start >= Last(g_collected).end

\* An interval straddles the end of a bucket: its first part ends the
\* bucket and the rest opens the next one.
C38_Witness ==
    /\ g_pc = "returned"
    /\ g_scale[1] = [duration |-> 1, time |-> "Minutes"]
    /\ \E n \in 1 .. (Len(g_collected) - 1) :
          LET data == g_collected[n].data[1]
              next == g_collected[n + 1].data[1]
          IN  /\ data # <<>>
              /\ next # <<>>
              /\ Last(data).duration > 0
              /\ end(Last(data)) = g_collected[n].end
              /\ next[1].start = g_collected[n + 1].start
              /\ next[1].duration > 0
              /\ KeyOf(next[1]) = KeyOf(Last(data))

\* C39: with min_percentage = 0 the durations of the entries returned add
\* up to the interval_sum returned, with afk time under Inactive or under
\* its own key, and for a process that is itself called Inactive.
C39_EntriesAddUpToIntervalSum ==
    (a_ret # None /\ a_arg[1].min_percentage = 0) =>
        SumDurations(a_ret[1].usages) = a_ret[1].interval_sum

(***************************************************************************)
(* SpecSeek: seek_line_backwards on a file of short lines, from every      *)
(* cursor and with every buffer of 1 .. MaxBufferLen bytes, and again from *)
(* where the call before left the cursor.                                  *)
(***************************************************************************)
MaxSeekFile == 5
MaxBufferLen == 3

SeekFiles == UNION { [1 .. n -> {NL, "a"}] : n \in 0 .. MaxSeekFile }

SeekInit ==
    /\ file \in SeekFiles
    /\ clock = 0
    /\ appends = 0
    /\ faults = 0
    /\ committed = {file}
    /\ pc = [p \in Procs |-> "idle"]
    /\ lock = [p \in Procs |-> "none"]
    /\ cursor = [p \in Procs |-> 0]
    /\ usage_record = [h \in Handles |-> <<>>]
    /\ last_line = [h \in Handles |-> <<>>]
    /\ buffer = [h \in Handles |-> <<>>]
    /\ written = [h \in Handles |-> 0]
    /\ result = [h \in Handles |-> "none"]
    /\ fault = [h \in Handles |-> "none"]
    /\ pre_file = [h \in Handles |-> <<>>]
    /\ rd_bytes = [r \in Readers |-> <<>>]
    /\ CollapseIdle
    /\ IntervalIdle
    /\ ReadIdle
    /\ samples = <<>>
    /\ DaemonIdle
    /\ CliIdle

\* seek_line_backwards(file, &mut buffer) with the cursor at pos.
SeekLineBackwards(pos) ==
    \E buffer_len \in 1 .. MaxBufferLen :
        /\ iv_op' = [op |-> "seek_line_backwards", pos |-> pos,
                     buffer_len |-> buffer_len,
                     cursor |-> seek_line_backwards(file, pos, buffer_len)]
        /\ UNCHANGED <<iv, collapseVars, fileVars, readVars, samples, daemonVars, cliVars>>

\* The first call, with the cursor anywhere in the file.
SeekFirst ==
    /\ iv_op.op = "none"
    /\ \E pos \in 0 .. Len(file) : SeekLineBackwards(pos)

\* A call with the cursor where the call before left it.
SeekAgain ==
    /\ iv_op.op = "seek_line_backwards"
    /\ iv_op.cursor < iv_op.pos
    /\ SeekLineBackwards(iv_op.cursor)

SeekNext == SeekFirst \/ SeekAgain

SpecSeek == SeekInit /\ [][SeekNext]_vars

(***************************************************************************)
(* Claims about seek_line_backwards (SpecSeek).                            *)
(***************************************************************************)
\* One past the last newline before the byte in front of offset c, or 0.
LineStartBefore(bytes, c) ==
    LET found == { n \in 1 .. (c - 1) : bytes[n] = NL }
    IN  IF found = {} THEN 0 ELSE CHOOSE n \in found : \A o \in found : o <= n

\* C40: seek_line_backwards leaves the cursor one past the last newline
\* below the byte in front of the cursor it was called at, or at 0 when
\* there is none, whatever the size of the buffer; at 0 the cursor stays.
C40_SeekFindsLineStart ==
    iv_op.op = "seek_line_backwards" =>
        /\ iv_op.cursor = LineStartBefore(file, iv_op.pos)
        /\ \A buffer_len \in 1 .. MaxBufferLen :
              seek_line_backwards(file, iv_op.pos, buffer_len) = iv_op.cursor
        /\ iv_op.pos = 0 => iv_op.cursor = 0

\* A call with the cursor at the first byte of the last line of a file of
\* two lines, where a call from the end of the file leaves it, and a buffer
\* shorter than a line: the cursor is at the first byte of the first line.
C40_Witness ==
    /\ file = <<"a", "a", NL, "a", NL>>
    /\ iv_op.op = "seek_line_backwards"
    /\ iv_op.buffer_len = 1
    /\ iv_op.pos = 3
    /\ iv_op.cursor = 0

=============================================================================
